---- MODULE Spec2Model ----
(***************************************************************************)
(* Statistical Feature Builder: the Extractor, the Validator, the          *)
(* statistics engine and the orchestrator of app/core, and the             *)
(* /v1/generate handler of app/routers/v1.py that calls them.              *)
(*                                                                         *)
(* Numbers.  A Python float is modelled as an exact number: a finite       *)
(* float is a rational (a reduced fraction of two integers), NaN and the   *)
(* two infinities are separate values.  Rounding is not modelled.  The     *)
(* square root of a non-negative rational is kept as a "surd", the value   *)
(* whose square is that rational, so that comparisons such as |z| > 3 are  *)
(* decided exactly (z^2 > 9).                                              *)
(***************************************************************************)
EXTENDS Integers, Sequences, FiniteSets, TLC

VARIABLES
    pc,                 \* position of the /v1/generate handler
    data,               \* request_data.data: the raw records of the request
    rl_count,           \* rate limiter: accepted requests of the client in the last minute
    values,             \* process_request: values returned by extract_values
    timestamps,         \* process_request: timestamps returned by extract_values
    statistics,         \* process_request: the Statistics model
    trends,             \* process_request: the Trends model
    outliers,           \* process_request: the list of Outlier models
    normality,          \* process_request: (p_value, is_normal)
    distribution_type,  \* process_request: the distribution label
    package,            \* the StatisticalPackage process_request returned
    error,              \* the exception that left process_request / the handler
    response,           \* the HTTP response of the handler
    engine,             \* processor.engine: the thresholds of the StatisticalEngine
    call,               \* a direct call of one method of the core, with its result
    fault,              \* the internal failure of a library routine during this request
    limiter             \* rate_limiter: its request log, the clock and its cleanup task

vars == <<pc, data, rl_count, values, timestamps, statistics, trends, outliers,
          normality, distribution_type, package, error, response, engine, call, fault,
          limiter>>

(***************************************************************************)
(* Bounds of the model.                                                    *)
(***************************************************************************)
MaxRecords == 4         \* longest enumerated request of the handler (records)
MaxCoreRecords == 3     \* longest enumerated argument of a direct extract_values call
MaxLen == 4             \* longest enumerated sample of a direct call
MaxValue == 2           \* enumerated sample values are 0..MaxValue
MaxThreshold == 3       \* thresholds of a configured engine are k/2, k in 1..MaxThreshold
LongLen == 11           \* numeric records of the long requests
RequestsPerMinute == 1  \* the limit the rate limiter is configured with
MaxExtra == 1           \* the longest enumerated sample has 60 + MaxExtra points
MaxDatasets == 4        \* most datasets in a mapping passed to calculate_correlations
MaxPackages == 2        \* most datasets in a mapping passed to process_multi_dataset
MaxCalls == 3           \* most calls of process_request made on one DataProcessor
Minute == 2             \* clock ticks in one minute
MaxTime == 4            \* the clock runs from 0 to MaxTime ticks

(***************************************************************************)
(* Optional values (Python None / an unassigned local).                    *)
(***************************************************************************)
Nothing == [some |-> FALSE]
Some(x) == [some |-> TRUE, val |-> x]

(***************************************************************************)
(* Exact arithmetic on fractions [n, d] with d > 0, kept reduced.          *)
(***************************************************************************)
Abs(i) == IF i < 0 THEN -i ELSE i

RECURSIVE Gcd(_, _)
Gcd(a, b) == IF b = 0 THEN a ELSE Gcd(b, a % b)

\* The fraction n / d (d # 0), reduced, with a positive denominator.
Rat(n, d) ==
    IF d < 0 THEN [n |-> (-n) \div Gcd(Abs(n), -d), d |-> (-d) \div Gcd(Abs(n), -d)]
    ELSE [n |-> n \div Gcd(Abs(n), d), d |-> d \div Gcd(Abs(n), d)]

RInt(i) == [n |-> i, d |-> 1]
RNeg(a) == [n |-> -a.n, d |-> a.d]
\* a + b over the least common denominator
RAdd(a, b) ==
    IF a.d = b.d THEN Rat(a.n + b.n, a.d)
    ELSE LET g == Gcd(a.d, b.d)
         IN  Rat(a.n * (b.d \div g) + b.n * (a.d \div g), (a.d \div g) * b.d)
RSub(a, b) ==
    IF a.d = b.d THEN Rat(a.n - b.n, a.d)
    ELSE LET g == Gcd(a.d, b.d)
         IN  Rat(a.n * (b.d \div g) - b.n * (a.d \div g), (a.d \div g) * b.d)
\* a * b, cancelling across before multiplying
RMul(a, b) ==
    IF a.n = 0 \/ b.n = 0 THEN RInt(0)
    ELSE LET g1 == Gcd(Abs(a.n), b.d)
             g2 == Gcd(Abs(b.n), a.d)
         IN  Rat((a.n \div g1) * (b.n \div g2), (a.d \div g2) * (b.d \div g1))
\* a / b for b # 0
RDiv(a, b) ==
    IF a.n = 0 THEN RInt(0)
    ELSE IF b.n < 0 THEN RMul(a, [n |-> -b.d, d |-> -b.n])
    ELSE RMul(a, [n |-> b.d, d |-> b.n])
RLt(a, b) == a.n * b.d < b.n * a.d
RLe(a, b) == a.n * b.d <= b.n * a.d
RSign(a) == IF a.n > 0 THEN 1 ELSE IF a.n < 0 THEN -1 ELSE 0

(***************************************************************************)
(* Floats: finite (a fraction), NaN, +Infinity, -Infinity.                 *)
(***************************************************************************)
Fin(r) == [k |-> "fin", r |-> r]
FInt(i) == Fin(RInt(i))
NaN == [k |-> "nan", r |-> RInt(0)]
PosInf == [k |-> "inf", r |-> RInt(1)]
NegInf == [k |-> "inf", r |-> RInt(-1)]
IsNan(f) == f.k = "nan"
IsInf(f) == f.k = "inf"
IsFinite(f) == f.k = "fin"

(***************************************************************************)
(* Surds: sqrt of a non-negative fraction, with a sign; [k, sgn, sq] is    *)
(* sgn * sqrt(sq).  NaN when k = "nan".                                    *)
(***************************************************************************)
Surd(sgn, sq) == [k |-> "fin", sgn |-> IF sq.n = 0 THEN 0 ELSE sgn, sq |-> sq]
SurdNaN == [k |-> "nan", sgn |-> 0, sq |-> RInt(0)]
Sqrt(f) == IF IsFinite(f) THEN Surd(1, f.r) ELSE SurdNaN       \* np.sqrt of f >= 0
SurdAbs(z) == IF z.k = "fin" THEN Surd(Abs(z.sgn), z.sq) ELSE SurdNaN
SurdIsZero(z) == z.k = "fin" /\ z.sgn = 0
\* z > t for a surd z and a fraction t; False when z is NaN, as in IEEE 754.
SurdGt(z, t) ==
    /\ z.k = "fin"
    /\ IF z.sgn >= 0
       THEN t.n < 0 \/ RLt(RMul(t, t), z.sq)
       ELSE t.n < 0 /\ RLt(z.sq, RMul(t, t))
SurdNeg(z) == [k |-> z.k, sgn |-> -z.sgn, sq |-> z.sq]
SurdLt(z, t) == SurdGt(SurdNeg(z), RNeg(t))

(***************************************************************************)
(* Raw records (JSON values).  A raw value is [t, v]:                      *)
(*   num    a JSON number in float range, v its value                      *)
(*   numstr a string that float() parses, v the number it denotes          *)
(*   nan    a value float() turns into NaN (NaN, "nan")                    *)
(*   inf    a value float() turns into +/-Infinity, v its sign             *)
(*   badstr a string float() cannot parse (ValueError)                     *)
(*   list   a list or mapping (TypeError)                                  *)
(*   bigint an integer beyond the float range (OverflowError)              *)
(*   none   None, also what dict.get returns for a missing key             *)
(* A timestamp is [t, s]: a string s, None, or a non-string JSON value.    *)
(* A record is a mapping (isdict) with a value and a timestamp field, or   *)
(* a bare scalar.                                                          *)
(***************************************************************************)
Num(i) == [t |-> "num", v |-> i]
NumStr(i) == [t |-> "numstr", v |-> i]
NanVal == [t |-> "nan", v |-> 0]
InfVal(s) == [t |-> "inf", v |-> s]
BadStr == [t |-> "badstr", v |-> 0]
ListVal == [t |-> "list", v |-> 0]
BigInt == [t |-> "bigint", v |-> 0]
NoneVal == [t |-> "none", v |-> 0]

TsStr(s) == [t |-> "str", s |-> s]
TsNone == [t |-> "none", s |-> ""]
TsNonStr == [t |-> "int", s |-> "1735689600"]

Dict(value, timestamp) == [isdict |-> TRUE, value |-> value, timestamp |-> timestamp]
Bare(value) == [isdict |-> FALSE, value |-> value, timestamp |-> TsNone]

NoExc == "none"

\* Python's float(value): the float, or the exception it raises.
ToFloat(value) ==
    CASE value.t = "num"    -> [exc |-> NoExc, f |-> FInt(value.v)]
      [] value.t = "numstr" -> [exc |-> NoExc, f |-> FInt(value.v)]
      [] value.t = "nan"    -> [exc |-> NoExc, f |-> NaN]
      [] value.t = "inf"    -> [exc |-> NoExc, f |-> IF value.v < 0 THEN NegInf ELSE PosInf]
      [] value.t = "badstr" -> [exc |-> "ValueError", f |-> NaN]
      [] value.t = "list"   -> [exc |-> "TypeError", f |-> NaN]
      [] value.t = "none"   -> [exc |-> "TypeError", f |-> NaN]
      [] value.t = "bigint" -> [exc |-> "OverflowError", f |-> NaN]

(***************************************************************************)
(* DataProcessor.extract_values                                            *)
(***************************************************************************)
\* extract_values appending the timestamp before the conversion is tried, so
\* that a record whose conversion fails still leaves its timestamp behind.
RECURSIVE ExtractLoopTimestampFirst(_, _, _, _)
ExtractLoopTimestampFirst(d, i, vals, tss) ==
    IF i > Len(d) THEN [exc |-> NoExc, values |-> vals, timestamps |-> tss]
    ELSE
      LET point == d[i]
          value == point.value
          timestamp == IF point.isdict THEN point.timestamp ELSE TsNone
          conv == ToFloat(value)
      IN  IF value.t = "none" THEN ExtractLoopTimestampFirst(d, i + 1, vals, tss)
          ELSE IF conv.exc = NoExc
               THEN ExtractLoopTimestampFirst(d, i + 1, Append(vals, conv.f),
                                              Append(tss, timestamp))
          ELSE IF conv.exc \in {"ValueError", "TypeError"}
               THEN ExtractLoopTimestampFirst(d, i + 1, vals, Append(tss, timestamp))
          ELSE [exc |-> conv.exc, values |-> vals, timestamps |-> tss]

RECURSIVE ExtractLoop(_, _, _, _)
ExtractLoop(d, i, vals, tss) ==
    IF i > Len(d) THEN [exc |-> NoExc, values |-> vals, timestamps |-> tss]
    ELSE
      LET point == d[i]
          value == point.value
          timestamp == IF point.isdict THEN point.timestamp ELSE TsNone
          conv == ToFloat(value)
      IN  IF value.t = "none" THEN ExtractLoop(d, i + 1, vals, tss)
          ELSE IF conv.exc = NoExc
               THEN ExtractLoop(d, i + 1, Append(vals, conv.f), Append(tss, timestamp))
          ELSE IF conv.exc \in {"ValueError", "TypeError"}
               THEN ExtractLoop(d, i + 1, vals, tss)
          ELSE [exc |-> conv.exc, values |-> vals, timestamps |-> tss]

ExtractValues(d) == ExtractLoop(d, 1, <<>>, <<>>)

(***************************************************************************)
(* DataProcessor.validate_data: the message of the ValueError it raises,   *)
(* or Valid.                                                               *)
(***************************************************************************)
Valid == "valid"
MinPoints == 3
EmptyData == "E002: No valid numeric values found in data"
InsufficientData == "E002: Insufficient data points for statistical analysis (minimum 3 required)"
NanData == "E002: Data contains NaN values"
InfData == "E002: Data contains infinite values"

\* validate_data with the finiteness checks before the length checks.
ValidateDataFinitenessFirst(vals) ==
    IF \E i \in DOMAIN vals : IsNan(vals[i]) THEN NanData
    ELSE IF \E i \in DOMAIN vals : IsInf(vals[i]) THEN InfData
    ELSE IF Len(vals) = 0 THEN EmptyData
    ELSE IF Len(vals) < MinPoints THEN InsufficientData
    ELSE Valid

ValidateData(vals) ==
    IF Len(vals) = 0 THEN EmptyData
    ELSE IF Len(vals) < MinPoints THEN InsufficientData
    ELSE IF \E i \in DOMAIN vals : IsNan(vals[i]) THEN NanData
    ELSE IF \E i \in DOMAIN vals : IsInf(vals[i]) THEN InfData
    ELSE Valid

(***************************************************************************)
(* numpy on a one-dimensional array of finite floats.                      *)
(***************************************************************************)
\* The sum of the fractions t[lo..hi], added pairwise (as np.add.reduce does).
RECURSIVE RSumOver(_, _, _)
RSumOver(t, lo, hi) ==
    IF lo > hi THEN RInt(0)
    ELSE IF lo = hi THEN t[lo]
    ELSE LET mid == (lo + hi) \div 2
         IN  RAdd(RSumOver(t, lo, mid), RSumOver(t, mid + 1, hi))

\* np.sum of a sequence of fractions.
RSum(t) == RSumOver(t, 1, Len(t))

\* np.mean: NaN for the empty array (0/0).
NpMean(d) ==
    IF Len(d) = 0 THEN NaN
    ELSE Fin(RDiv(RSum([i \in 1..Len(d) |-> d[i].r]), RInt(Len(d))))

\* sum of (d[i] - m)^2
SqDev(d, m) ==
    RSum([i \in 1..Len(d) |-> RMul(RSub(d[i].r, m), RSub(d[i].r, m))])

\* np.var with ddof ignored: the population variance.
NpVarPopulation(d, ddof) ==
    IF Len(d) = 0 THEN NaN
    ELSE Fin(RDiv(SqDev(d, NpMean(d).r), RInt(Len(d))))

\* np.var(d, ddof): sum of squared deviations / (n - ddof); NaN when n - ddof <= 0.
NpVar(d, ddof) ==
    IF Len(d) - ddof <= 0 THEN NaN
    ELSE Fin(RDiv(SqDev(d, NpMean(d).r), RInt(Len(d) - ddof)))

\* np.std(d, ddof) = sqrt(np.var(d, ddof)).
NpStd(d, ddof) == Sqrt(NpVar(d, ddof))

\* np.sort: the values in ascending order.
Sorted(d) == LET Before(a, b) == RLt(a.r, b.r) IN SortSeq(d, Before)

NpMin(d) == Sorted(d)[1]
NpMax(d) == Sorted(d)[Len(d)]

\* np.median: the middle order statistic, or the mean of the two middle ones.
NpMedian(d) ==
    LET a == Sorted(d)
        n == Len(d)
    IN  IF n % 2 = 1 THEN a[(n + 1) \div 2]
        ELSE Fin(RDiv(RAdd(a[n \div 2].r, a[n \div 2 + 1].r), RInt(2)))

\* np.percentile interpolating in the array as given, without sorting it.
NpPercentileUnsorted(d, q) ==
    LET n == Len(d)
        lo == ((n - 1) * q) \div 100
        frac == Rat((n - 1) * q - lo * 100, 100)
        hi == IF lo + 1 < n THEN lo + 1 ELSE lo
    IN  Fin(RAdd(d[lo + 1].r, RMul(RSub(d[hi + 1].r, d[lo + 1].r), frac)))

\* np.percentile(d, q), method "linear": virtual index (n-1)*q/100 into the
\* sorted array, interpolated between its two neighbours.
NpPercentile(d, q) ==
    LET a == Sorted(d)
        n == Len(d)
        lo == ((n - 1) * q) \div 100
        frac == Rat((n - 1) * q - lo * 100, 100)
        hi == IF lo + 1 < n THEN lo + 1 ELSE lo
    IN  Fin(RAdd(a[lo + 1].r, RMul(RSub(a[hi + 1].r, a[lo + 1].r), frac)))

FSub(a, b) == IF IsFinite(a) /\ IsFinite(b) THEN Fin(RSub(a.r, b.r)) ELSE NaN

(***************************************************************************)
(* scipy.stats.skew and scipy.stats.kurtosis with their defaults           *)
(* (bias=True, fisher=True): central moments with denominator n;           *)
(* NaN when the second moment is zero.                                     *)
(***************************************************************************)
\* a^k for k in 1..4
RPow(a, k) ==
    CASE k = 1 -> a
      [] k = 2 -> RMul(a, a)
      [] k = 3 -> RMul(RMul(a, a), a)
      [] k = 4 -> RMul(RMul(a, a), RMul(a, a))

\* The k-th central moment: mean of (d[i] - mean)^k.
Moment(d, k) ==
    LET m == NpMean(d).r
    IN  RDiv(RSum([i \in 1..Len(d) |-> RPow(RSub(d[i].r, m), k)]), RInt(Len(d)))

StatsSkew(d) ==
    LET m2 == Moment(d, 2)
        m3 == Moment(d, 3)
    IN  IF m2.n = 0 THEN SurdNaN
        ELSE Surd(RSign(m3), RDiv(RMul(m3, m3), RPow(m2, 3)))

StatsKurtosis(d) ==
    LET m2 == Moment(d, 2)
        m4 == Moment(d, 4)
    IN  IF m2.n = 0 THEN NaN
        ELSE Fin(RSub(RDiv(m4, RMul(m2, m2)), RInt(3)))

(***************************************************************************)
(* StatisticalEngine                                                       *)
(***************************************************************************)
DefaultOutlierThreshold == 3
DefaultExtremeThreshold == 3

\* An engine constructed with a higher outlier threshold.
NewEngineStrict == [outlier_threshold |-> RInt(DefaultOutlierThreshold + 1),
                    extreme_threshold |-> RInt(DefaultExtremeThreshold)]

\* An engine constructed with the outlier threshold 2.5.
NewEngineLenient == [outlier_threshold |-> Rat(2 * DefaultOutlierThreshold - 1, 2),
                     extreme_threshold |-> RInt(DefaultExtremeThreshold)]

\* StatisticalEngine.__init__
NewEngine == [outlier_threshold |-> RInt(DefaultOutlierThreshold),
              extreme_threshold |-> RInt(DefaultExtremeThreshold)]

\* StatisticalEngine.calculate_descriptive_statistics, for a non-empty array.
CalculateDescriptiveStatistics(d) ==
    LET mean_val == NpMean(d)
        median_val == NpMedian(d)
        std_val == NpStd(d, 1)
        var_val == NpVar(d, 1)
        q1 == NpPercentile(d, 25)
        q3 == NpPercentile(d, 75)
        iqr == FSub(q3, q1)
        skewness == StatsSkew(d)
        kurt == StatsKurtosis(d)
    IN  [count |-> Len(d), mean |-> mean_val, median |-> median_val,
         min |-> NpMin(d), max |-> NpMax(d),
         std_dev |-> std_val, variance |-> var_val,
         q1 |-> q1, q3 |-> q3, iqr |-> iqr,
         skewness |-> skewness, kurtosis |-> kurt]

\* z_scores = (data - mean) / std, element idx (std is not zero here).
ZScore(x, mean, std) ==
    IF ~IsFinite(mean) \/ std.k # "fin" THEN SurdNaN
    ELSE LET dev == RSub(x.r, mean.r)
         IN  Surd(RSign(dev), RDiv(RMul(dev, dev), std.sq))

\* abs_z >= threshold in place of abs_z > threshold.
ExceedsInclusive(abs_z, threshold) == abs_z.k = "fin" /\ ~SurdLt(abs_z, threshold)

\* abs_z > self.outlier_threshold, abs_z > self.extreme_threshold
Exceeds(abs_z, threshold) == SurdGt(abs_z, threshold)

\* The dictionary detect_outliers appends for index idx (0-based, as
\* enumerate counts).  ts is the timestamps argument: Nothing (None) or
\* Some(list).
OutlierEntry(d, ts, eng, mean, std, idx) ==
    LET value == d[idx + 1]
        z_score == ZScore(value, mean, std)
        abs_z == SurdAbs(z_score)
    IN  [index |-> idx,
         value |-> value,
         z_score |-> z_score,
         is_extreme |-> Exceeds(abs_z, eng.extreme_threshold),
         timestamp |-> IF ts.some /\ Len(ts.val) > 0 /\ idx < Len(ts.val)
                       THEN ts.val[idx + 1]
                       ELSE TsNone]

\* StatisticalEngine.detect_outliers: the entries of the indices whose
\* abs_z exceeds the outlier threshold, in the order of the loop.
DetectOutliers(d, ts, eng) ==
    LET mean == NpMean(d)
        std == NpStd(d, 1)
        entries == [i \in 1..Len(d) |-> OutlierEntry(d, ts, eng, mean, std, i - 1)]
        IsOutlier(o) == Exceeds(SurdAbs(o.z_score), eng.outlier_threshold)
    IN  IF SurdIsZero(std) THEN <<>>
        ELSE SelectSeq(entries, IsOutlier)

\* data[a:b] of Python for 0 <= a <= b <= n.
Slice(d, a, b) == SubSeq(d, a + 1, b)

\* The least squares slope with the indices counted from the end.
OlsSlopeReversed(d) ==
    LET n == Len(d)
        xbar == Rat(n - 1, 2)
        ybar == NpMean(d).r
        xy == [i \in 1..n |-> RMul(RSub(RInt(n - i), xbar), RSub(d[i].r, ybar))]
        xx == [i \in 1..n |-> RMul(RSub(RInt(n - i), xbar), RSub(RInt(n - i), xbar))]
    IN  RDiv(RSum(xy), RSum(xx))

\* sklearn LinearRegression().fit(arange(n), data): the least squares line
\* through the points (i, y_i), i = 0..n-1:
\* slope = sum (i - xbar)(y_i - ybar) / sum (i - xbar)^2, and 0 for n = 1.
OlsSlope(d) ==
    LET n == Len(d)
        xbar == Rat(n - 1, 2)
        ybar == NpMean(d).r
        xy == [i \in 1..n |-> RMul(RSub(RInt(i - 1), xbar), RSub(d[i].r, ybar))]
        xx == [i \in 1..n |-> RMul(RSub(RInt(i - 1), xbar), RSub(RInt(i - 1), xbar))]
    IN  RDiv(RSum(xy), RSum(xx))
OlsIntercept(d) == RSub(NpMean(d).r, RMul(OlsSlope(d), Rat(Len(d) - 1, 2)))
\* model.score: 1 - SSres/SStot, and 1.0 for a constant series fitted exactly.
\* SSres is the sum of the squared residuals of the fitted line, which for
\* the least squares line equals SStot - slope^2 * sum (i - xbar)^2, with
\* sum (i - xbar)^2 = n (n^2 - 1) / 12.
OlsScore(d) ==
    LET n == Len(d)
        sstot == SqDev(d, NpMean(d).r)
        slope == OlsSlope(d)
        ssres == RSub(sstot, RMul(RMul(slope, slope), Rat(n * (n * n - 1), 12)))
    IN  IF sstot.n = 0 THEN (IF ssres.n = 0 THEN RInt(1) ELSE RInt(0))
        ELSE RSub(RInt(1), RDiv(ssres, sstot))

StableFactor == Rat(1, 100)      \* 0.01

\* day_over_day with the last value as the base of the percentage.
DayOverDayFromLast(d) ==
    LET n == Len(d)
        last_value == d[n].r
        prev_value == d[n - 1].r
    IN  IF n >= 2 /\ last_value.n # 0
        THEN Some(Fin(RMul(RDiv(RSub(last_value, prev_value), last_value), RInt(100))))
        ELSE Nothing

\* day_over_day: None unless n >= 2 and data[-2] != 0.
DayOverDay(d) ==
    LET n == Len(d)
        last_value == d[n].r
        prev_value == d[n - 1].r
    IN  IF n >= 2 /\ prev_value.n # 0
        THEN Some(Fin(RMul(RDiv(RSub(last_value, prev_value), prev_value), RInt(100))))
        ELSE Nothing

\* month_over_month without the inner test n >= 60: from 30 points on,
\* data[-60:-30] is whatever precedes the last 30 points.
MonthOverMonthFrom30(d) ==
    LET n == Len(d)
        first == IF n >= 60 THEN n - 60 ELSE 0
        recent_mean == NpMean(Slice(d, n - 30, n)).r
        prev_mean == NpMean(Slice(d, first, n - 30))
    IN  IF n >= 30 /\ IsFinite(prev_mean) /\ prev_mean.r.n # 0
        THEN Some(Fin(RMul(RDiv(RSub(recent_mean, prev_mean.r), prev_mean.r), RInt(100))))
        ELSE Nothing

\* month_over_month: None unless n >= 30, n >= 60 and mean(data[-60:-30]) != 0.
MonthOverMonth(d) ==
    LET n == Len(d)
        recent_mean == NpMean(Slice(d, n - 30, n)).r
        prev_mean == NpMean(Slice(d, n - 60, n - 30)).r
    IN  IF n >= 30 /\ n >= 60 /\ prev_mean.n # 0
        THEN Some(Fin(RMul(RDiv(RSub(recent_mean, prev_mean), prev_mean), RInt(100))))
        ELSE Nothing

\* The direction with the slope compared to 0.01 * |mean|.
TrendDirectionAbsMean(slope, mean) ==
    IF RLt(Rat(Abs(slope.n), slope.d), RMul(StableFactor, Rat(Abs(mean.n), mean.d)))
    THEN "stable"
    ELSE IF slope.n > 0 THEN "upward"
    ELSE "downward"

\* The direction with "<=" in place of "<" in the stability test.
TrendDirectionInclusive(slope, mean) ==
    IF RLe(Rat(Abs(slope.n), slope.d), RMul(StableFactor, mean)) THEN "stable"
    ELSE IF slope.n > 0 THEN "upward"
    ELSE "downward"

\* if abs(slope) < 0.01 * np.mean(data): ... elif slope > 0: ... else: ...
TrendDirection(slope, mean) ==
    IF RLt(Rat(Abs(slope.n), slope.d), RMul(StableFactor, mean)) THEN "stable"
    ELSE IF slope.n > 0 THEN "upward"
    ELSE "downward"

\* StatisticalEngine.analyze_trends, for a finite array of at least 1 point
\* (LinearRegression.fit rejects the empty array).  For a single point the
\* fit is the constant line and model.score is NaN.
AnalyzeTrends(d) ==
    LET n == Len(d)
        slope == OlsSlope(d)
        intercept == OlsIntercept(d)
    IN  [day_over_day_pct |-> DayOverDay(d),
         month_over_month_pct |-> MonthOverMonth(d),
         regression_slope |-> Fin(slope),
         regression_intercept |-> Fin(intercept),
         r_squared |-> IF n < 2 THEN NaN ELSE Fin(OlsScore(d)),
         forecast_next_period |-> Fin(RAdd(intercept, RMul(slope, RInt(n)))),
         trend_direction |-> TrendDirection(slope, NpMean(d).r)]

(***************************************************************************)
(* The outcome of a library routine: it returned (exc = NoExc) or raised   *)
(* an exception of type exc.  A routine fails only by an internal failure  *)
(* (fault); the arrays the engine passes it are ones it accepts.           *)
(***************************************************************************)
Returned == [exc |-> NoExc]
Raised(type) == [exc |-> type]

(***************************************************************************)
(* StatisticalEngine.test_normality.  The p-value of scipy.stats.shapiro   *)
(* is not computed: sh is what the library call did, it returned a p-value *)
(* (one of PValues) or raised.                                             *)
(***************************************************************************)
Alpha == Rat(1, 20)              \* 0.05
PValues == {RInt(0), Rat(1, 20), Rat(1, 10), RInt(1)}
ShapiroReturned(p) == [exc |-> NoExc, p |-> p]
ShapiroRaised(type) == [exc |-> type, p |-> RInt(0)]

\* test_normality with is_normal = (p_value >= 0.05).
TestNormalityInclusive(d, sh) ==
    IF Len(d) < MinPoints THEN [p_value |-> RInt(1), is_normal |-> FALSE]
    ELSE IF sh.exc # NoExc THEN [p_value |-> RInt(0), is_normal |-> FALSE]
    ELSE [p_value |-> sh.p, is_normal |-> RLe(Alpha, sh.p)]

TestNormality(d, sh) ==
    IF Len(d) < MinPoints THEN [p_value |-> RInt(1), is_normal |-> FALSE]
    ELSE IF sh.exc # NoExc THEN [p_value |-> RInt(0), is_normal |-> FALSE]
    ELSE [p_value |-> sh.p, is_normal |-> RLt(Alpha, sh.p)]

\* classify_distribution testing the kurtosis rules before the skewness rules.
ClassifyDistributionKurtosisFirst(d, p_value, sk) ==
    LET skewness == StatsSkew(d)
        kurtosis == StatsKurtosis(d)
        kfin == IsFinite(kurtosis)
    IN  IF RLt(Alpha, p_value) THEN "normal"
        ELSE IF sk.exc # NoExc THEN "unknown"
        ELSE IF /\ SurdLt(SurdAbs(skewness), Rat(1, 2))
                /\ kfin /\ RLt(Rat(Abs(kurtosis.r.n), kurtosis.r.d), Rat(1, 2))
             THEN "approximately_normal"
        ELSE IF kfin /\ RLt(RInt(3), kurtosis.r) THEN "heavy_tailed"
        ELSE IF kfin /\ RLt(kurtosis.r, RInt(-1)) THEN "light_tailed"
        ELSE IF SurdGt(skewness, RInt(1)) THEN "right_skewed"
        ELSE IF SurdLt(skewness, RInt(-1)) THEN "left_skewed"
        ELSE "non_normal"

\* classify_distribution with "normal" for p_value >= 0.05.
ClassifyDistributionInclusive(d, p_value, sk) ==
    LET skewness == StatsSkew(d)
        kurtosis == StatsKurtosis(d)
        kfin == IsFinite(kurtosis)
    IN  IF RLe(Alpha, p_value) THEN "normal"
        ELSE IF sk.exc # NoExc THEN "unknown"
        ELSE IF /\ SurdLt(SurdAbs(skewness), Rat(1, 2))
                /\ kfin /\ RLt(Rat(Abs(kurtosis.r.n), kurtosis.r.d), Rat(1, 2))
             THEN "approximately_normal"
        ELSE IF SurdGt(skewness, RInt(1)) THEN "right_skewed"
        ELSE IF SurdLt(skewness, RInt(-1)) THEN "left_skewed"
        ELSE IF kfin /\ RLt(RInt(3), kurtosis.r) THEN "heavy_tailed"
        ELSE IF kfin /\ RLt(kurtosis.r, RInt(-1)) THEN "light_tailed"
        ELSE "non_normal"

\* StatisticalEngine.classify_distribution; sk is what the calls of
\* stats.skew and stats.kurtosis did.
ClassifyDistribution(d, p_value, sk) ==
    LET skewness == StatsSkew(d)
        kurtosis == StatsKurtosis(d)
        kfin == IsFinite(kurtosis)
    IN  IF RLt(Alpha, p_value) THEN "normal"
        ELSE IF sk.exc # NoExc THEN "unknown"
        ELSE IF /\ SurdLt(SurdAbs(skewness), Rat(1, 2))
                /\ kfin /\ RLt(Rat(Abs(kurtosis.r.n), kurtosis.r.d), Rat(1, 2))
             THEN "approximately_normal"
        ELSE IF SurdGt(skewness, RInt(1)) THEN "right_skewed"
        ELSE IF SurdLt(skewness, RInt(-1)) THEN "left_skewed"
        ELSE IF kfin /\ RLt(RInt(3), kurtosis.r) THEN "heavy_tailed"
        ELSE IF kfin /\ RLt(kurtosis.r, RInt(-1)) THEN "light_tailed"
        ELSE "non_normal"

(***************************************************************************)
(* StatisticalEngine.calculate_correlations.  datasets is the mapping in   *)
(* its insertion order, a sequence of [name, data] with distinct names;    *)
(* the result is the dictionary in its insertion order, a sequence of      *)
(* [key, val].  Of each entry the model keeps the truncated length and the *)
(* Pearson coefficient; the Spearman coefficient and the p-values are not  *)
(* computed.                                                               *)
(***************************************************************************)
\* scipy.stats.pearsonr(x, y) for two arrays of the same length >= 2: the
\* coefficient, NaN when one of them is constant.
PearsonR(x, y) ==
    LET mx == NpMean(x).r
        my == NpMean(y).r
        sxy == RSum([i \in 1..Len(x) |-> RMul(RSub(x[i].r, mx), RSub(y[i].r, my))])
        sxx == SqDev(x, mx)
        syy == SqDev(y, my)
    IN  IF sxx.n = 0 \/ syy.n = 0 THEN SurdNaN
        ELSE Surd(RSign(sxy), RDiv(RMul(sxy, sxy), RMul(sxx, syy)))

\* key = f"{name1}_vs_{name2}"
CorrelationKey(name1, name2) == name1 \o "_vs_" \o name2

\* correlations[key] = val: a new key is appended, an existing key keeps its
\* place and gets the new value.
DictSet(dict, key, val) ==
    IF \E k \in DOMAIN dict : dict[k].key = key
    THEN [k \in DOMAIN dict |-> IF dict[k].key = key THEN [key |-> key, val |-> val]
                                ELSE dict[k]]
    ELSE Append(dict, [key |-> key, val |-> val])

\* The value stored for the pair of datasets at positions i < j.
CorrelationEntry(datasets, i, j) ==
    LET data1 == datasets[i].data
        data2 == datasets[j].data
        min_len == IF Len(data1) < Len(data2) THEN Len(data1) ELSE Len(data2)
    IN  [min_len |-> min_len,
         pearson |-> PearsonR(Slice(data1, 0, min_len), Slice(data2, 0, min_len))]

\* for i in range(n): for j in range(i + 1, n): ... (i, j counted from 1);
\* pearsonr raises ValueError for arrays shorter than 2.
RECURSIVE CorrelationLoop(_, _, _, _)
CorrelationLoop(datasets, i, j, correlations) ==
    IF i > Len(datasets) THEN [exc |-> NoExc, result |-> correlations]
    ELSE IF j > Len(datasets) THEN CorrelationLoop(datasets, i + 1, i + 2, correlations)
    ELSE IF CorrelationEntry(datasets, i, j).min_len < 2
         THEN [exc |-> "ValueError", result |-> <<>>]
    ELSE CorrelationLoop(datasets, i, j + 1,
             DictSet(correlations, CorrelationKey(datasets[i].name, datasets[j].name),
                     CorrelationEntry(datasets, i, j)))

CalculateCorrelations(datasets) ==
    IF Len(datasets) < 2 THEN [exc |-> NoExc, result |-> <<>>]
    ELSE CorrelationLoop(datasets, 1, 2, <<>>)

(***************************************************************************)
(* pydantic models built by process_request.  Statistics, Trends and       *)
(* StatisticalPackage accept every float; Outlier.timestamp is             *)
(* Optional[str], so a timestamp that is not a string is a                 *)
(* ValidationError, a subclass of ValueError.                              *)
(***************************************************************************)
OutlierModelsOk(list) == \A i \in DOMAIN list : list[i].timestamp.t \in {"str", "none"}

Exc(type, msg, codes) == [type |-> type, msg |-> msg, codes |-> codes]
ValidationError == Exc("ValueError", "1 validation error for Outlier", {})

\* The except clauses of process_request: a ValueError is re-raised as it
\* is, anything else is replaced by Exception("E003: ...").
ProcessRequestRaises(e) ==
    IF e.type = "ValueError" THEN e
    ELSE Exc("Exception", "E003: " \o e.msg, e.codes \cup {"E003"})

\* The except clauses of generate_statistical_package.
HandlerResponse(e) ==
    IF e.type = "ValueError"
    THEN [status |-> 400, error_code |-> IF "E001" \in e.codes THEN "E001" ELSE "E002"]
    ELSE IF e.type = "TimeoutError"
    THEN [status |-> 504, error_code |-> "E004"]
    ELSE [status |-> 500, error_code |-> "E003"]

(***************************************************************************)
(* DataProcessor.mask_sensitive_fields.  fields_to_mask is a sequence of   *)
(* field names.  Of a record the model keeps the fields value and          *)
(* timestamp; a field that is None stands for a missing key; the marker    *)
(* "***MASKED***" in the value field is a string float() cannot parse.     *)
(***************************************************************************)
MaskSensitiveFields(records, fields_to_mask) ==
    LET Named(field) == \E k \in DOMAIN fields_to_mask : fields_to_mask[k] = field
        masked_item(item) ==
            [isdict |-> TRUE,
             value |-> IF Named("value") /\ item.value.t # "none"
                       THEN BadStr ELSE item.value,
             timestamp |-> IF Named("timestamp") /\ item.timestamp.t # "none"
                           THEN TsStr("***MASKED***") ELSE item.timestamp]
    IN  IF Len(fields_to_mask) = 0 THEN records
        ELSE [i \in DOMAIN records |->
                 IF records[i].isdict THEN masked_item(records[i]) ELSE records[i]]

(***************************************************************************)
(* DataProcessor.process_request as one call, the library routines         *)
(* returning: the exception it raises or the package it returns, the       *)
(* records it handed to extract_values, and the methods it called, in      *)
(* order.  sh is what scipy.stats.shapiro does on the sample.              *)
(***************************************************************************)
\* process_request computing the descriptive statistics before it validates.
ProcessRequestAnalysisFirst(request_data, masking_fields, eng, sh) ==
    LET extracted == request_data    \* extract_values(request.data): masking_fields is never read
        r == ExtractValues(extracted)
        v == ValidateData(r.values)
        outliers_list == DetectOutliers(r.values, Some(r.timestamps), eng)
        norm == TestNormality(r.values, sh)
        Raises(e, steps) == [exc |-> Some(ProcessRequestRaises(e)), package |-> Nothing,
                             extracted |-> extracted, steps |-> steps]
    IN  IF r.exc # NoExc
        THEN Raises(Exc(r.exc, "int too large to convert to float", {}), <<"extract_values">>)
        ELSE IF v # Valid
        THEN Raises(Exc("ValueError", v, {"E002"}),
                    <<"extract_values", "calculate_descriptive_statistics", "validate_data">>)
        ELSE IF ~OutlierModelsOk(outliers_list)
        THEN Raises(ValidationError,
                    <<"extract_values", "validate_data", "calculate_descriptive_statistics",
                      "analyze_trends", "detect_outliers">>)
        ELSE [exc |-> Nothing,
              package |-> Some([statistics |-> CalculateDescriptiveStatistics(r.values),
                                trends |-> AnalyzeTrends(r.values),
                                correlations |-> Nothing,
                                outliers |-> outliers_list,
                                distribution_type |->
                                    ClassifyDistribution(r.values, norm.p_value, Returned),
                                normality_test_p_value |-> norm.p_value,
                                is_normal_distribution |-> norm.is_normal]),
              extracted |-> extracted,
              steps |-> <<"extract_values", "calculate_descriptive_statistics",
                          "validate_data", "analyze_trends",
                          "detect_outliers", "test_normality", "classify_distribution">>]

ProcessRequest(request_data, masking_fields, eng, sh) ==
    LET extracted == request_data    \* extract_values(request.data): masking_fields is never read
        r == ExtractValues(extracted)
        v == ValidateData(r.values)
        outliers_list == DetectOutliers(r.values, Some(r.timestamps), eng)
        norm == TestNormality(r.values, sh)
        Raises(e, steps) == [exc |-> Some(ProcessRequestRaises(e)), package |-> Nothing,
                             extracted |-> extracted, steps |-> steps]
    IN  IF r.exc # NoExc
        THEN Raises(Exc(r.exc, "int too large to convert to float", {}), <<"extract_values">>)
        ELSE IF v # Valid
        THEN Raises(Exc("ValueError", v, {"E002"}), <<"extract_values", "validate_data">>)
        ELSE IF ~OutlierModelsOk(outliers_list)
        THEN Raises(ValidationError,
                    <<"extract_values", "validate_data", "calculate_descriptive_statistics",
                      "analyze_trends", "detect_outliers">>)
        ELSE [exc |-> Nothing,
              package |-> Some([statistics |-> CalculateDescriptiveStatistics(r.values),
                                trends |-> AnalyzeTrends(r.values),
                                correlations |-> Nothing,
                                outliers |-> outliers_list,
                                distribution_type |->
                                    ClassifyDistribution(r.values, norm.p_value, Returned),
                                normality_test_p_value |-> norm.p_value,
                                is_normal_distribution |-> norm.is_normal]),
              extracted |-> extracted,
              steps |-> <<"extract_values", "validate_data",
                          "calculate_descriptive_statistics", "analyze_trends",
                          "detect_outliers", "test_normality", "classify_distribution">>]

(***************************************************************************)
(* DataProcessor.process_multi_dataset.  datasets is the mapping in its    *)
(* iteration order, a sequence of [name, data]; shs[i] is what shapiro     *)
(* does on the sample of the dataset at position i.  The result holds the  *)
(* exception raised or the dictionary returned, and for every dataset the  *)
(* loop reached the methods called for it, in order.  GenerateRequest      *)
(* (data: List[Dict[str, Any]]) rejects a record that is not a mapping     *)
(* with a ValidationError, a subclass of ValueError.                       *)
(***************************************************************************)
\* process_multi_dataset leaving out the datasets whose iteration raised.
ProcessMultiDatasetPartial(datasets, eng, shs) ==
    LET values_of(i) == ExtractValues(datasets[i].data)
        package_of(i) == ProcessRequest(datasets[i].data, <<>>, eng, shs[i])
        ok(i) == /\ values_of(i).exc = NoExc
                 /\ ValidateData(values_of(i).values) = Valid
                 /\ \A k \in DOMAIN datasets[i].data : datasets[i].data[k].isdict
                 /\ ~package_of(i).exc.some
        kept == SelectSeq([i \in DOMAIN datasets |-> i], ok)
        dataset_arrays == [k \in DOMAIN kept |-> [name |-> datasets[kept[k]].name,
                                                  data |-> values_of(kept[k]).values]]
    IN  [exc |-> Nothing,
         result |-> Some([packages |-> [k \in DOMAIN kept |->
                                           [key |-> datasets[kept[k]].name,
                                            val |-> package_of(kept[k]).package.val]],
                          cross_correlations |-> CalculateCorrelations(dataset_arrays).result]),
         steps |-> [i \in DOMAIN datasets |-> <<"extract_values">>],
         correlated |-> TRUE]

\* The body of process_multi_dataset: packages[i] is what process_request
\* does for the dataset at position i, correlations what
\* calculate_correlations does on the extracted arrays.
MultiDatasetOutcome(datasets, packages, correlations) ==
    LET values_of(i) == ExtractValues(datasets[i].data)
        v(i) == ValidateData(values_of(i).values)
        request_ok(i) == \A k \in DOMAIN datasets[i].data : datasets[i].data[k].isdict
        \* the exception that ends the iteration for the dataset at position i
        exc(i) == IF values_of(i).exc # NoExc
                  THEN Some(Exc(values_of(i).exc, "int too large to convert to float", {}))
                  ELSE IF v(i) # Valid THEN Some(Exc("ValueError", v(i), {"E002"}))
                  ELSE IF ~request_ok(i)
                  THEN Some(Exc("ValueError", "1 validation error for GenerateRequest", {}))
                  ELSE packages[i].exc
        steps(i) == IF values_of(i).exc # NoExc THEN <<"extract_values">>
                    ELSE IF v(i) # Valid \/ ~request_ok(i)
                    THEN <<"extract_values", "validate_data">>
                    ELSE <<"extract_values", "validate_data">> \o packages[i].steps
        failed == {i \in DOMAIN datasets : exc(i).some}
        first == CHOOSE i \in failed : \A j \in failed : i <= j
    IN  IF failed # {}
        THEN [exc |-> exc(first), result |-> Nothing,
              steps |-> [i \in 1..first |-> steps(i)], correlated |-> FALSE]
        ELSE IF correlations.exc # NoExc
        THEN [exc |-> Some(Exc(correlations.exc, "correlation failed", {})),
              result |-> Nothing,
              steps |-> [i \in DOMAIN datasets |-> steps(i)], correlated |-> TRUE]
        ELSE [exc |-> Nothing,
              result |-> Some([packages |-> [i \in DOMAIN datasets |->
                                                [key |-> datasets[i].name,
                                                 val |-> packages[i].package.val]],
                               cross_correlations |-> correlations.result]),
              steps |-> [i \in DOMAIN datasets |-> steps(i)], correlated |-> TRUE]

ProcessMultiDataset(datasets, eng, shs) ==
    MultiDatasetOutcome(
        datasets,
        [i \in DOMAIN datasets |-> ProcessRequest(datasets[i].data, <<>>, eng, shs[i])],
        CalculateCorrelations([i \in DOMAIN datasets |->
                                  [name |-> datasets[i].name,
                                   data |-> ExtractValues(datasets[i].data).values]]))

(***************************************************************************)
(* The requests and samples the model enumerates.                          *)
(***************************************************************************)
Days == <<"2025-01-01", "2025-01-02", "2025-01-03", "2025-01-04", "2025-01-05",
          "2025-01-06", "2025-01-07", "2025-01-08", "2025-01-09", "2025-01-10",
          "2025-01-11", "2025-01-12", "2025-01-13", "2025-01-14", "2025-01-15">>
\* The timestamp of the record at position i: distinct positions, distinct labels.
DayLabel(i) == TsStr(Days[i])

\* The k-th kind of record (k in 1..10) at position i.
Shape(k, i) ==
    CASE k = 1 -> Dict(Num(0), DayLabel(i))
      [] k = 2 -> Dict(Num(3), DayLabel(i))
      [] k = 3 -> Dict(NumStr(3), TsNone)
      [] k = 4 -> Dict(BadStr, DayLabel(i))
      [] k = 5 -> Dict(NoneVal, DayLabel(i))
      [] k = 6 -> Dict(NanVal, DayLabel(i))
      [] k = 7 -> Dict(BigInt, DayLabel(i))
      [] k = 8 -> Bare(Num(3))
      [] k = 9 -> Dict(ListVal, TsNone)
      [] k = 10 -> Dict(InfVal(1), DayLabel(i))

\* The request whose record at position i has shape f[i].
Records(f) == [i \in DOMAIN f |-> Shape(f[i], i)]

\* LongLen - 1 records of value 0 and one of value 1 at position k, whose
\* timestamp is ts; when 1 <= j, a non-numeric record is inserted at position j.
LongRequest(k, ts, j) ==
    LET n == IF j = 0 THEN LongLen ELSE LongLen + 1
        src(i) == IF j = 0 \/ i < j THEN i ELSE i - 1
    IN  [i \in 1..n |->
            IF j # 0 /\ i = j THEN Dict(BadStr, DayLabel(i))
            ELSE IF src(i) = k THEN Dict(Num(1), IF ts = "label" THEN DayLabel(i)
                                                 ELSE IF ts = "none" THEN TsNone
                                                 ELSE TsNonStr)
            ELSE Dict(Num(0), DayLabel(i))]

LongRequests ==
    {LongRequest(k, ts, j) : k \in 1..LongLen, ts \in {"label", "none", "nonstr"},
                             j \in 0..(LongLen + 1)}


NoCall == [op |-> "none"]

\* An internal failure: the library routine called in step raises an
\* exception of the given type; hit records that it has happened.
NoFault == [step |-> "none", type |-> "none", hit |-> FALSE]
FaultSteps == {"descriptive", "trends", "outliers", "normality", "classify"}
FaultTypes == {"RuntimeError", "ValueError"}
Faults == {[step |-> s, type |-> t, hit |-> FALSE] : s \in FaultSteps, t \in FaultTypes}
\* What the library routine of a step does under the current fault.
Library(step) == IF fault.step = step THEN Raised(fault.type) ELSE Returned
FaultExc == Exc(fault.type, "internal failure", {})

(***************************************************************************)
(* RateLimiter (rate limiting enabled).  requests maps a client key to the *)
(* list of the timestamps of its recorded requests (a key without an entry *)
(* has the empty list, as in the defaultdict); now is datetime.utcnow(),   *)
(* in ticks; wake is the time at which the sleep of the cleanup task ends  *)
(* (cleanup_interval is 60 seconds, one minute).  accepted lists, for every *)
(* key, the times of the calls that returned True, and refused tells       *)
(* whether a call of the key has raised: they are not part of the program. *)
(***************************************************************************)
ClientKeys == {"user:alice", "ip:10.0.0.1"}

\* RateLimiter.__init__, which also starts the cleanup task
NewRateLimiter ==
    [requests |-> [key \in ClientKeys |-> <<>>],
     now |-> 0,
     wake |-> Minute,
     accepted |-> [key \in ClientKeys |-> <<>>],
     refused |-> [key \in ClientKeys |-> FALSE]]

(***************************************************************************)
(* POST /v1/generate: generate_statistical_package and, inside it,         *)
(* DataProcessor.process_request, one action per step.                     *)
(***************************************************************************)
Init ==
    /\ pc = "start"
    \* the shapes 1..8 are those a JSON body can carry
    /\ \/ \E n \in 0..MaxRecords : \E f \in [1..n -> 1..8] : data = Records(f)
       \/ data \in LongRequests
    /\ rl_count \in 0..RequestsPerMinute
    /\ values = Nothing /\ timestamps = Nothing
    /\ statistics = Nothing /\ trends = Nothing /\ outliers = Nothing
    /\ normality = Nothing /\ distribution_type = Nothing
    /\ package = Nothing /\ error = Nothing /\ response = Nothing
    /\ engine = NewEngine
    /\ call = NoCall
    /\ fault = NoFault
    /\ limiter = NewRateLimiter

Locals == <<values, timestamps, statistics, trends, outliers, normality, distribution_type>>

\* An exception e leaves the handler's try block: the handler answers it.
HandlerCatches(e) ==
    /\ error' = Some(e)
    /\ response' = Some(HandlerResponse(e))
    /\ pc' = "done"

\* GenerateRequest: data is List[Dict[str, Any]] with min_length 1; a
\* RequestValidationError is answered 422 by validation_exception_handler.
SchemaValidation ==
    /\ pc = "start"
    /\ IF Len(data) = 0 \/ \E i \in DOMAIN data : ~data[i].isdict
       THEN /\ response' = Some([status |-> 422, error_code |-> "E002"])
            /\ pc' = "done"
       ELSE /\ response' = response
            /\ pc' = "rate_limit"
    /\ UNCHANGED <<limiter, data, rl_count, Locals, package, error, engine, call, fault>>

\* rate_limiter.check_rate_limit, awaited inside the handler's try block.
CheckRateLimit ==
    /\ pc = "rate_limit"
    /\ IF rl_count >= RequestsPerMinute
       THEN /\ HandlerCatches(Exc("HTTPException", "Rate limit exceeded", {"E006"}))
            /\ UNCHANGED rl_count
       ELSE /\ rl_count' = rl_count + 1
            /\ pc' = "extract"
            /\ UNCHANGED <<error, response>>
    /\ UNCHANGED <<limiter, data, Locals, package, engine, call, fault>>

\* values, timestamps = self.extract_values(request.data)
Extract ==
    /\ pc = "extract"
    /\ LET r == ExtractValues(data)
       IN  IF r.exc = NoExc
           THEN /\ values' = Some(r.values)
                /\ timestamps' = Some(r.timestamps)
                /\ pc' = "validate"
                /\ UNCHANGED <<error, response>>
           ELSE /\ HandlerCatches(ProcessRequestRaises(
                        Exc(r.exc, "int too large to convert to float", {})))
                /\ UNCHANGED <<values, timestamps>>
    /\ UNCHANGED <<limiter, data, rl_count, statistics, trends, outliers, normality,
                   distribution_type, package, engine, call, fault>>

\* self.validate_data(values)
Validate ==
    /\ pc = "validate"
    /\ LET v == ValidateData(values.val)
       IN  IF v = Valid
           THEN pc' = "descriptive" /\ UNCHANGED <<error, response>>
           ELSE HandlerCatches(ProcessRequestRaises(Exc("ValueError", v, {"E002"})))
    /\ UNCHANGED <<limiter, data, rl_count, Locals, package, engine, call, fault>>

\* The library routine of a step raised: the engine method logs and
\* re-raises, process_request's except clauses take over.
StepFails ==
    /\ HandlerCatches(ProcessRequestRaises(FaultExc))
    /\ fault' = [fault EXCEPT !.hit = TRUE]

\* statistics = Statistics(**self.engine.calculate_descriptive_statistics(values))
Descriptive ==
    /\ pc = "descriptive"
    /\ IF Library("descriptive").exc # NoExc
       THEN StepFails /\ UNCHANGED statistics
       ELSE /\ statistics' = Some(CalculateDescriptiveStatistics(values.val))
            /\ pc' = "trends"
            /\ UNCHANGED <<error, response, fault>>
    /\ UNCHANGED <<limiter, data, rl_count, values, timestamps, trends, outliers, normality,
                   distribution_type, package, engine, call>>

\* trends = Trends(**self.engine.analyze_trends(values, period_type="daily"))
Trends ==
    /\ pc = "trends"
    /\ IF Library("trends").exc # NoExc
       THEN StepFails /\ UNCHANGED trends
       ELSE /\ trends' = Some(AnalyzeTrends(values.val))
            /\ pc' = "outliers"
            /\ UNCHANGED <<error, response, fault>>
    /\ UNCHANGED <<limiter, data, rl_count, values, timestamps, statistics, outliers, normality,
                   distribution_type, package, engine, call>>

\* outliers = [Outlier(**o) for o in self.engine.detect_outliers(values, timestamps)]
Outliers ==
    /\ pc = "outliers"
    /\ LET outliers_list == DetectOutliers(values.val, Some(timestamps.val), engine)
       IN  IF Library("outliers").exc # NoExc
           THEN StepFails /\ UNCHANGED outliers
           ELSE IF OutlierModelsOk(outliers_list)
           THEN /\ outliers' = Some(outliers_list)
                /\ pc' = "normality"
                /\ UNCHANGED <<error, response, fault>>
           ELSE /\ HandlerCatches(ProcessRequestRaises(ValidationError))
                /\ UNCHANGED <<outliers, fault>>
    /\ UNCHANGED <<limiter, data, rl_count, values, timestamps, statistics, trends, normality,
                   distribution_type, package, engine, call>>

\* p_value, is_normal = self.engine.test_normality(values)
Normality ==
    /\ pc = "normality"
    /\ IF Library("normality").exc # NoExc
       THEN /\ normality' = Some(TestNormality(values.val, ShapiroRaised(fault.type)))
            /\ fault' = [fault EXCEPT !.hit = TRUE]
       ELSE /\ \E p \in PValues :
                  normality' = Some(TestNormality(values.val, ShapiroReturned(p)))
            /\ UNCHANGED fault
    /\ pc' = "classify"
    /\ UNCHANGED <<limiter, data, rl_count, values, timestamps, statistics, trends, outliers,
                   distribution_type, package, error, response, engine, call>>

\* distribution_type = self.engine.classify_distribution(values, p_value)
Classify ==
    /\ pc = "classify"
    /\ distribution_type' =
          Some(ClassifyDistribution(values.val, normality.val.p_value, Library("classify")))
    \* stats.skew is reached only when p_value > 0.05 does not hold
    /\ fault' = IF fault.step = "classify" /\ ~RLt(Alpha, normality.val.p_value)
                THEN [fault EXCEPT !.hit = TRUE]
                ELSE fault
    /\ pc' = "build"
    /\ UNCHANGED <<limiter, data, rl_count, values, timestamps, statistics, trends, outliers,
                   normality, package, error, response, engine, call>>

\* process_request returning once the outliers are known, the normality
\* fields filled with defaults.
ReturnPackageEarly ==
    /\ pc = "normality"
    /\ package' = Some([statistics |-> statistics.val,
                        trends |-> trends.val,
                        correlations |-> Nothing,
                        outliers |-> outliers.val,
                        distribution_type |-> "unknown",
                        normality_test_p_value |-> RInt(1),
                        is_normal_distribution |-> FALSE])
    /\ pc' = "returned"
    /\ UNCHANGED <<limiter, data, rl_count, Locals, error, response, engine, call, fault>>

\* package = StatisticalPackage(...); return package
ReturnPackage ==
    /\ pc = "build"
    /\ package' = Some([statistics |-> statistics.val,
                        trends |-> trends.val,
                        correlations |-> Nothing,
                        outliers |-> outliers.val,
                        distribution_type |-> distribution_type.val,
                        normality_test_p_value |-> normality.val.p_value,
                        is_normal_distribution |-> normality.val.is_normal])
    /\ pc' = "returned"
    /\ UNCHANGED <<limiter, data, rl_count, Locals, error, response, engine, call, fault>>

\* The handler builds the GenerateResponse and returns it (HTTP 200).
Respond ==
    /\ pc = "returned"
    /\ response' = Some([status |-> 200, error_code |-> "none"])
    /\ pc' = "done"
    /\ UNCHANGED <<limiter, data, rl_count, Locals, package, error, engine, call, fault>>

Next ==
    \/ SchemaValidation
    \/ CheckRateLimit
    \/ Extract
    \/ Validate
    \/ Descriptive
    \/ Trends
    \/ Outliers
    \/ Normality
    \/ Classify
    \/ ReturnPackage
    \/ Respond

Spec == Init /\ [][Next]_vars

(***************************************************************************)
(* Direct calls of the core's methods, as the unit tests make them: one    *)
(* call on a freshly built DataProcessor / StatisticalEngine.  call holds  *)
(* the method, its arguments and what it returned.                         *)
(***************************************************************************)
FiniteValues == {FInt(v) : v \in 0..MaxValue}

IntSample(s) == [i \in DOMAIN s |-> FInt(s[i])]

\* The samples of tests/test_statistics.py and tests/test_api.py.
FivePoint == IntSample(<<100, 105, 102, 500, 103>>)
TenPoint == IntSample(<<100, 105, 102, 98, 103, 500, 101, 99, 104, 97>>)
ApiTenPoint == IntSample(<<100, 105, 102, 500, 103, 101, 99, 104, 97, 106>>)
SampleData == IntSample(<<100, 105, 102, 98, 103, 101, 99, 104, 97, 106>>)
\* sample_data with the value 500 injected at position k (1..11).
ElevenPoint(k) == SubSeq(SampleData, 1, k - 1) \o <<FInt(500)>> \o SubSeq(SampleData, k, 10)
ElevenPoints == {ElevenPoint(k) : k \in 1..11}
TestSamples == {FivePoint, TenPoint, ApiTenPoint} \cup ElevenPoints

Labels(n) == [i \in 1..n |-> DayLabel(i)]
TsArgs(s) ==
    {Nothing, Some(<<>>), Some(Labels(Len(s)))}
        \cup (IF Len(s) > 0 THEN {Some(Labels(Len(s) - 1))} ELSE {})

\* Engines whose two thresholds were set after construction.
Engines == {[outlier_threshold |-> Rat(a, 2), extreme_threshold |-> Rat(b, 2)] :
                a \in 1..MaxThreshold, b \in 1..MaxThreshold}

\* The configured engine that lists the most and marks the least as extreme.
SensitiveEngine == [outlier_threshold |-> Rat(1, 2), extreme_threshold |-> Rat(MaxThreshold, 2)]

InitCore ==
    /\ pc = "direct"
    /\ data = <<>>
    /\ rl_count = 0
    /\ values = Nothing /\ timestamps = Nothing
    /\ statistics = Nothing /\ trends = Nothing /\ outliers = Nothing
    /\ normality = Nothing /\ distribution_type = Nothing
    /\ package = Nothing /\ error = Nothing /\ response = Nothing
    /\ engine = NewEngine
    /\ call = NoCall
    /\ fault = NoFault
    /\ limiter = NewRateLimiter

Handler == <<pc, data, rl_count, Locals, package, error, response, engine, fault, limiter>>

CallExtractValues ==
    /\ pc = "direct" /\ call = NoCall
    /\ \E n \in 0..MaxCoreRecords : \E f \in [1..n -> 1..10] :
          call' = [op |-> "extract_values", data |-> Records(f),
                   result |-> ExtractValues(Records(f))]
    /\ UNCHANGED Handler

CallValidateData ==
    /\ pc = "direct" /\ call = NoCall
    /\ \E n \in 0..MaxLen : \E s \in [1..n -> {FInt(0), FInt(1), NaN, PosInf, NegInf}] :
          call' = [op |-> "validate_data", data |-> s, result |-> ValidateData(s)]
    /\ UNCHANGED Handler

CallCalculateDescriptiveStatistics ==
    /\ pc = "direct" /\ call = NoCall
    /\ \E n \in 1..MaxLen : \E s \in [1..n -> FiniteValues] :
          call' = [op |-> "calculate_descriptive_statistics", data |-> s,
                   result |-> CalculateDescriptiveStatistics(s)]
    /\ UNCHANGED Handler

CallDetectOutliers ==
    /\ pc = "direct" /\ call = NoCall
    /\ \/ \E n \in 0..MaxLen, eng \in Engines : \E s \in [1..n -> FiniteValues] :
             call' = [op |-> "detect_outliers", data |-> s, timestamps |-> Nothing,
                      engine |-> eng, result |-> DetectOutliers(s, Nothing, eng)]
       \/ \E n \in 0..MaxLen : \E s \in [1..n -> FiniteValues] : \E ts \in TsArgs(s) :
             call' = [op |-> "detect_outliers", data |-> s, timestamps |-> ts,
                      engine |-> SensitiveEngine,
                      result |-> DetectOutliers(s, ts, SensitiveEngine)]
       \/ \E s \in TestSamples : \E ts \in {Nothing, Some(Labels(Len(s)))} :
             call' = [op |-> "detect_outliers", data |-> s, timestamps |-> ts,
                      engine |-> NewEngine, result |-> DetectOutliers(s, ts, NewEngine)]
       \* a new engine on the short samples and on n - 1 equal points and one
       \* point away from them, below or above
       \/ \E s \in UNION {[1..n -> FiniteValues] : n \in 0..MaxLen}
                    \cup UNION {{[i \in 1..n |-> IF i = k THEN FInt(v) ELSE FInt(1 - v)] :
                                     k \in 1..n, v \in {0, 1}} : n \in 2..LongLen} :
             call' = [op |-> "detect_outliers", data |-> s, timestamps |-> Nothing,
                      engine |-> NewEngine, result |-> DetectOutliers(s, Nothing, NewEngine)]
    /\ UNCHANGED Handler

\* Samples for analyze_trends: short ones over -1..MaxValue, the arithmetic
\* series, and the samples around 30 and 60 points.
ArithSeries(first, step, n) == [i \in 1..n |-> FInt(first + (i - 1) * step)]
ArithSamples ==
    {ArithSeries(first, step, n) : first \in {0, 1, 10, 1000}, step \in {1, 10},
                                   n \in 3..(MaxLen + 6)}
\* n points: the last 30 are b; the 30 before them are a, or a and -a in
\* turn when alt; whatever precedes those is 5.
MonthSample(n, a, b, alt) ==
    [i \in 1..n |->
        IF i > n - 30 THEN FInt(b)
        ELSE IF i > n - 60 THEN (IF alt /\ i % 2 = 0 THEN FInt(-a) ELSE FInt(a))
        ELSE FInt(5)]
MonthSamples ==
    {MonthSample(n, a, b, alt) : n \in {29, 30, 31, 59} \cup 60..(60 + MaxExtra),
                                 a \in {0, 1}, b \in {0, 2}, alt \in BOOLEAN}

CallAnalyzeTrends ==
    /\ pc = "direct" /\ call = NoCall
    /\ \/ \E n \in 1..MaxLen : \E s \in [1..n -> {FInt(v) : v \in -1..MaxValue}] :
             call' = [op |-> "analyze_trends", data |-> s, result |-> AnalyzeTrends(s)]
       \/ \E s \in ArithSamples \cup MonthSamples :
             call' = [op |-> "analyze_trends", data |-> s, result |-> AnalyzeTrends(s)]
    /\ UNCHANGED Handler

\* What stats.shapiro can do when it is called, and the placeholder for a
\* call of test_normality that does not reach it.
ShapiroOutcomes ==
    {ShapiroReturned(p) : p \in PValues} \cup {ShapiroRaised(t) : t \in FaultTypes}
ShapiroNotCalled == [exc |-> "not called", p |-> RInt(0)]

CallTestNormality ==
    /\ pc = "direct" /\ call = NoCall
    /\ \E n \in 0..MaxLen : \E s \in [1..n -> FiniteValues] :
          \E sh \in IF n < MinPoints THEN {ShapiroNotCalled} ELSE ShapiroOutcomes :
             call' = [op |-> "test_normality", data |-> s, shapiro |-> sh,
                      result |-> TestNormality(s, sh)]
    /\ UNCHANGED Handler

\* Samples for classify_distribution beyond the short ones: k zeros and a
\* one, k ones and a zero, k zeros between -1 and 1, k ones between 0 and 2.
OneHigh(k) == [i \in 1..(k + 1) |-> IF i = k + 1 THEN FInt(1) ELSE FInt(0)]
OneLow(k) == [i \in 1..(k + 1) |-> IF i = k + 1 THEN FInt(0) ELSE FInt(1)]
TwoTails(k) == [i \in 1..(k + 2) |-> IF i = 1 THEN FInt(-1)
                                      ELSE IF i = k + 2 THEN FInt(1) ELSE FInt(0)]
ShapeSamples ==
    {OneHigh(k) : k \in 5..(MaxLen + 6)} \cup {OneLow(k) : k \in 5..(MaxLen + 6)}
        \cup {TwoTails(k) : k \in 3..(MaxLen + 8)}

CallClassifyDistribution ==
    /\ pc = "direct" /\ call = NoCall
    /\ \E p \in PValues, sk \in {Returned} \cup {Raised(t) : t \in FaultTypes} :
          \/ \E n \in 1..MaxLen : \E s \in [1..n -> FiniteValues] :
                call' = [op |-> "classify_distribution", data |-> s, p_value |-> p,
                         library |-> sk, result |-> ClassifyDistribution(s, p, sk)]
          \/ \E s \in ShapeSamples :
                call' = [op |-> "classify_distribution", data |-> s, p_value |-> p,
                         library |-> sk, result |-> ClassifyDistribution(s, p, sk)]
    /\ UNCHANGED Handler

\* Mappings of up to MaxDatasets datasets with distinct names, each a sample
\* of at least 3 points.
Names == {"a", "b", "c", "a_vs_b", "b_vs_c"}
CorrSamples == {IntSample(<<0, 1, 2>>), IntSample(<<2, 0, 1, 1>>), IntSample(<<1, 1, 1>>)}
Mapping(names, arrays) == [i \in DOMAIN names |-> [name |-> names[i], data |-> arrays[i]]]

CallCalculateCorrelations ==
    /\ pc = "direct" /\ call = NoCall
    /\ \E k \in 0..MaxDatasets : \E names \in [1..k -> Names] :
          /\ \A i, j \in DOMAIN names : i # j => names[i] # names[j]
          /\ \E arrays \in [1..k -> CorrSamples] :
                call' = [op |-> "calculate_correlations",
                         datasets |-> Mapping(names, arrays),
                         result |-> CalculateCorrelations(Mapping(names, arrays))]
    /\ UNCHANGED Handler

NextCore ==
    \/ CallExtractValues
    \/ CallValidateData
    \/ CallCalculateDescriptiveStatistics
    \/ CallDetectOutliers

SpecCore == InitCore /\ [][NextCore]_vars

(***************************************************************************)
(* Direct calls of the engine's trend, normality and classification        *)
(* methods, and direct calls of its correlation method.                    *)
(***************************************************************************)
NextEngine ==
    \/ CallAnalyzeTrends
    \/ CallTestNormality
    \/ CallClassifyDistribution

SpecEngine == InitCore /\ [][NextEngine]_vars


SpecCorrelations == InitCore /\ [][CallCalculateCorrelations]_vars

(***************************************************************************)
(* Calls of the orchestrator on one DataProcessor.                         *)
(***************************************************************************)
\* The record lists given to the orchestrator: valid ones (the last with an
\* outlier), too short, with a NaN, with a bare scalar, with an integer
\* beyond the float range, with an outlier whose timestamp is not a string.
ProcessorRequests ==
    {Records(<<1, 2, 1>>), Records(<<1, 2>>), Records(<<1, 6, 1>>), Records(<<1, 8, 2>>),
     Records(<<7, 1, 1>>), LongRequest(1, "nonstr", 0), LongRequest(2, "label", 0)}

\* processor.process_multi_dataset(datasets) on a new DataProcessor
CallProcessMultiDataset ==
    /\ pc = "direct" /\ call = NoCall
    /\ \E n \in 0..MaxPackages : \E lists \in [1..n -> ProcessorRequests] :
       \E shs \in [1..n -> {ShapiroReturned(RInt(0)), ShapiroReturned(RInt(1))}] :
          LET datasets == [i \in 1..n |-> [name |-> <<"a", "b", "c", "d">>[i], data |-> lists[i]]]
          IN  call' = [op |-> "process_multi_dataset", datasets |-> datasets,
                       shapiro |-> shs,
                       result |-> ProcessMultiDataset(datasets, engine, shs)]
    /\ UNCHANGED Handler

\* process_request after which the engine works with a higher outlier threshold.
CallProcessRequestTuning ==
    /\ pc = "direct" /\ call.op \in {"none", "process_request"}
    /\ LET done == IF call = NoCall THEN <<>> ELSE call.calls
       IN  /\ Len(done) < MaxCalls
           /\ \E masking_fields \in {<<>>, <<"cpf", "salario">>, <<"timestamp">>} :
              \E request_data \in {Records(<<1, 2, 1>>), Records(<<1, 2>>),
                                   LongRequest(2, "label", 0)} :
              \E sh \in {ShapiroReturned(RInt(0)), ShapiroReturned(RInt(1))} :
                 /\ call # NoCall => masking_fields = call.masking_fields
                 /\ \A k \in DOMAIN done : done[k].request = request_data => done[k].shapiro = sh
                 /\ call' = [op |-> "process_request", masking_fields |-> masking_fields,
                             calls |-> Append(done,
                                 [request |-> request_data, shapiro |-> sh,
                                  result |-> ProcessRequest(request_data, masking_fields,
                                                            engine, sh)])]
    /\ engine' = NewEngineStrict
    /\ UNCHANGED <<pc, data, rl_count, Locals, package, error, response, fault, limiter>>

\* processor.process_request(request, masking_fields), up to MaxCalls calls
\* one after the other on the same DataProcessor.  masking_fields is what
\* /v1/generate passes: None when masking is disabled (the empty list
\* here), else the configured field names; the settings do not change
\* between the calls.  shapiro, a function of the sample, does the same on
\* the same sample.
CallProcessRequest ==
    /\ pc = "direct" /\ call.op \in {"none", "process_request"}
    /\ LET done == IF call = NoCall THEN <<>> ELSE call.calls
       IN  /\ Len(done) < MaxCalls
           /\ \E masking_fields \in {<<>>, <<"cpf", "salario">>, <<"timestamp">>} :
              \E request_data \in {Records(<<1, 2, 1>>), Records(<<1, 2>>),
                                   LongRequest(2, "label", 0)} :
              \E sh \in {ShapiroReturned(RInt(0)), ShapiroReturned(RInt(1))} :
                 /\ call # NoCall => masking_fields = call.masking_fields
                 /\ \A k \in DOMAIN done : done[k].request = request_data => done[k].shapiro = sh
                 /\ call' = [op |-> "process_request", masking_fields |-> masking_fields,
                             calls |-> Append(done,
                                 [request |-> request_data, shapiro |-> sh,
                                  result |-> ProcessRequest(request_data, masking_fields,
                                                            engine, sh)])]
    /\ UNCHANGED Handler

NextProcessor ==
    \/ CallProcessMultiDataset
    \/ CallProcessRequest

SpecProcessor == InitCore /\ [][NextProcessor]_vars

(***************************************************************************)
(* The rate limiter under concurrent requests: check_rate_limit and the    *)
(* body of the cleanup loop contain no await, so each runs as one step of  *)
(* the event loop; the steps of different requests and of the cleanup task *)
(* come in any order, at any time.                                         *)
(***************************************************************************)
\* await rate_limiter.check_rate_limit(request), for a request of any client
RateLimiterCheck ==
    /\ pc = "direct"
    /\ \E client_key \in ClientKeys :
          LET now == limiter.now
              minute_ago == now - Minute
              Recent(ts) == ts > minute_ago
              recent_requests == SelectSeq(limiter.requests[client_key], Recent)
          IN  IF Len(recent_requests) >= RequestsPerMinute
              THEN limiter' = [limiter EXCEPT !.refused[client_key] = TRUE]
              ELSE limiter' = [limiter EXCEPT !.requests[client_key] = Append(@, now),
                                              !.accepted[client_key] = Append(@, now)]
    /\ UNCHANGED <<pc, data, rl_count, Locals, package, error, response, engine, call, fault>>

\* The cleanup keeping the entries that are at least one minute old and
\* dropping the others.
CleanupOldEntriesRecent ==
    /\ pc = "direct"
    /\ limiter.now >= limiter.wake
    /\ LET cutoff == limiter.now - Minute
           Old(ts) == ~(ts > cutoff)
       IN  limiter' = [limiter EXCEPT
                          !.requests = [key \in ClientKeys |-> SelectSeq(@[key], Old)],
                          !.wake = limiter.now + Minute]
    /\ UNCHANGED <<pc, data, rl_count, Locals, package, error, response, engine, call, fault>>

\* One round of _cleanup_old_entries once its sleep has ended: the entries
\* newer than the cutoff are kept (a key left with no entry is deleted,
\* which leaves it the empty list), then the task sleeps again.
CleanupOldEntries ==
    /\ pc = "direct"
    /\ limiter.now >= limiter.wake
    /\ LET cutoff == limiter.now - Minute
           Kept(ts) == ts > cutoff
       IN  limiter' = [limiter EXCEPT
                          !.requests = [key \in ClientKeys |-> SelectSeq(@[key], Kept)],
                          !.wake = limiter.now + Minute]
    /\ UNCHANGED <<pc, data, rl_count, Locals, package, error, response, engine, call, fault>>

\* Time passes.
ClockTick ==
    /\ pc = "direct"
    /\ limiter.now < MaxTime
    /\ limiter' = [limiter EXCEPT !.now = @ + 1]
    /\ UNCHANGED <<pc, data, rl_count, Locals, package, error, response, engine, call, fault>>

NextRateLimiter ==
    \/ RateLimiterCheck
    \/ CleanupOldEntries
    \/ ClockTick

SpecRateLimiter == InitCore /\ [][NextRateLimiter]_vars

(***************************************************************************)
(* The handler on the long requests together with direct calls of          *)
(* detect_outliers: the two ways detect_outliers is reached.               *)
(***************************************************************************)
InitOutliers ==
    \/ InitCore
    \/ Init /\ data \in LongRequests

NextOutliers ==
    \/ Next
    \/ CallDetectOutliers

SpecOutliers == InitOutliers /\ [][NextOutliers]_vars

(***************************************************************************)
(* The handler when a library routine of one analysis step fails           *)
(* internally during the request.                                          *)
(***************************************************************************)
FaultRequests ==
    {Records(f) : f \in UNION {[1..n -> {1, 2, 4}] : n \in 0..MaxCoreRecords}}
        \cup {LongRequest(k, "label", 0) : k \in 1..LongLen}
        \cup {LongRequest(1, "nonstr", 0)}

InitFaults ==
    /\ pc = "start"
    /\ data \in FaultRequests
    /\ rl_count \in 0..RequestsPerMinute
    /\ values = Nothing /\ timestamps = Nothing
    /\ statistics = Nothing /\ trends = Nothing /\ outliers = Nothing
    /\ normality = Nothing /\ distribution_type = Nothing
    /\ package = Nothing /\ error = Nothing /\ response = Nothing
    /\ engine = NewEngine
    /\ call = NoCall
    /\ fault \in Faults \cup {NoFault}
    /\ limiter = NewRateLimiter

SpecFaults == InitFaults /\ [][Next]_vars

(***************************************************************************)
(* Vocabulary of the properties, in integer arithmetic on the sample       *)
(* itself (the enumerated samples are integer-valued).                     *)
(***************************************************************************)
IntOf(s, i) == s[i].r.n
\* The sum of the values at the 0-based indices lo .. hi - 1, by halves.
RECURSIVE ISumRange(_, _, _)
ISumRange(s, lo, hi) ==
    IF lo >= hi THEN 0
    ELSE IF hi = lo + 1 THEN IntOf(s, hi)
    ELSE ISumRange(s, lo, (lo + hi) \div 2) + ISumRange(s, (lo + hi) \div 2, hi)
\* The sum of the values from position i on.
ISumFrom(s, i) == ISumRange(s, i - 1, Len(s))
\* n * (x_i - mean)
IDev(s, i) == Len(s) * IntOf(s, i) - ISumFrom(s, 1)
\* n^2 * (sum of squared deviations from the mean)
RECURSIVE ISqDevFrom(_, _)
ISqDevFrom(s, i) == IF i > Len(s) THEN 0 ELSE IDev(s, i) * IDev(s, i) + ISqDevFrom(s, i + 1)
AllEqual(s) == \A i, j \in DOMAIN s : s[i] = s[j]
\* z_i^2 as a fraction, for a sample of n >= 2 points that are not all equal:
\* (x_i - mean)^2 / (sum of squared deviations / (n - 1)).
ZSquared(s, i) == Rat(IDev(s, i) * IDev(s, i) * (Len(s) - 1), ISqDevFrom(s, 1))
\* |z_i| > t, |z_i| = t for a threshold t >= 0.
AbsZAbove(s, i, t) == RLt(RMul(t, t), ZSquared(s, i))
AbsZEquals(s, i, t) == RMul(t, t) = ZSquared(s, i)
\* The k-th smallest value of the sample (k in 1..n).
OrderStat(s, k) ==
    CHOOSE v \in {IntOf(s, i) : i \in DOMAIN s} :
        /\ Cardinality({i \in DOMAIN s : IntOf(s, i) < v}) < k
        /\ k <= Cardinality({i \in DOMAIN s : IntOf(s, i) <= v})
\* The q-th percentile of an integer sample: at the virtual index
\* h = (n - 1) * q / 100 of the order statistics, interpolated linearly.
Interpolated(s, q) ==
    LET n == Len(s)
        lo == ((n - 1) * q) \div 100
        rem == (n - 1) * q - lo * 100
        below == OrderStat(s, lo + 1)
        above == IF lo + 2 <= n THEN OrderStat(s, lo + 2) ELSE below
    IN  Rat(below * 100 + rem * (above - below), 100)
FLe(a, b) == IsFinite(a) /\ IsFinite(b) /\ RLe(a.r, b.r)

\* A record extract_values keeps: its value is not None and float() accepts it.
Convertible(rec) == rec.value.t # "none" /\ ToFloat(rec.value).exc = NoExc
ConvPositions(d) == {i \in DOMAIN d : Convertible(d[i])}
\* The position in d of the j-th convertible record.
NthConvertible(d, j) ==
    CHOOSE i \in ConvPositions(d) : Cardinality({k \in ConvPositions(d) : k <= i}) = j
\* process_request was entered (the request passed the schema and the rate limiter).
Processed ==
    /\ pc = "done"
    /\ response.val.status # 422
    /\ ~(error.some /\ error.val.type = "HTTPException")

IsCall(op) == call.op = op

(***************************************************************************)
(* C1: validate_data fails with the "no valid numeric values" error for a  *)
(* sample of length 0, with the "insufficient data points" error for every *)
(* sample of length 1 or 2 whatever it contains, with a non-finite error   *)
(* for every sample of length >= 3 holding NaN or an infinity, and accepts *)
(* every sample of length >= 3 whose values are all finite.                *)
(***************************************************************************)
C1_ValidateData ==
    IsCall("validate_data") =>
        LET s == call.data
            r == call.result
            nonfinite == \E i \in DOMAIN s : ~IsFinite(s[i])
        IN  /\ Len(s) = 0 => r = EmptyData
            /\ Len(s) \in {1, 2} => r = InsufficientData
            /\ (Len(s) >= 3 /\ nonfinite) => r \in {NanData, InfData}
            /\ (Len(s) >= 3 /\ ~nonfinite) => r = Valid

C1_Witness ==
    /\ IsCall("validate_data")
    /\ Len(call.data) = 2
    /\ \E i \in DOMAIN call.data : IsNan(call.data[i])
    /\ call.result = InsufficientData

(***************************************************************************)
(* C2: process_request never returns a partially populated package: a     *)
(* package exists only after extraction, validation, descriptive           *)
(* statistics, trends, outliers, the normality test and the classification *)
(* have all completed, and then every field of it is populated; when a     *)
(* step raised, no package was returned and the call failed.               *)
(***************************************************************************)
C2_NoPartialPackage ==
    /\ package.some =>
          /\ pc \in {"returned", "done"}
          /\ error = Nothing
          /\ values.some /\ timestamps.some /\ ValidateData(values.val) = Valid
          /\ statistics.some /\ trends.some /\ outliers.some
          /\ normality.some /\ distribution_type.some
          /\ package.val.statistics = statistics.val
          /\ package.val.trends = trends.val
          /\ package.val.outliers = outliers.val
          /\ package.val.distribution_type = distribution_type.val
          /\ package.val.normality_test_p_value = normality.val.p_value
          /\ package.val.is_normal_distribution = normality.val.is_normal
    /\ error.some => (package = Nothing /\ response.some /\ response.val.status # 200)
    /\ (response.some /\ response.val.status = 200) => package.some

C2_Witness ==
    /\ pc = "done"
    /\ package.some
    /\ package.val.outliers # <<>>
    /\ response.val.status = 200

(***************************************************************************)
(* C3: for every sequence of records extract_values returns a values array *)
(* and a timestamps list of equal length; values holds, in input order,    *)
(* the conversion of exactly the records whose value is                    *)
(* numeric-convertible, and timestamps[i] is the timestamp of the record   *)
(* that produced values[i] (None for a bare scalar); a dropped record      *)
(* contributes to neither list.                                            *)
(***************************************************************************)
C3_ExtractAligned ==
    IsCall("extract_values") =>
        LET d == call.data
            r == call.result
            kept == Cardinality(ConvPositions(d))
        IN  /\ r.exc = NoExc
            /\ Len(r.values) = kept
            /\ Len(r.timestamps) = kept
            /\ \A j \in 1..kept :
                  LET rec == d[NthConvertible(d, j)]
                  IN  /\ r.values[j] = ToFloat(rec.value).f
                      /\ r.timestamps[j] = (IF rec.isdict THEN rec.timestamp ELSE TsNone)

\* What does hold: the same, whenever extract_values returns at all.
ExtractAlignedWhenReturned ==
    (IsCall("extract_values") /\ call.result.exc = NoExc) =>
        LET d == call.data
            r == call.result
            kept == Cardinality(ConvPositions(d))
        IN  /\ Len(r.values) = kept
            /\ Len(r.timestamps) = kept
            /\ \A j \in 1..kept :
                  LET rec == d[NthConvertible(d, j)]
                  IN  /\ r.values[j] = ToFloat(rec.value).f
                      /\ r.timestamps[j] = (IF rec.isdict THEN rec.timestamp ELSE TsNone)

(***************************************************************************)
(* C4: non-numeric records are dropped and are no call-level error as long *)
(* as at least 3 numeric-convertible finite values remain; whenever fewer  *)
(* than 3 records of the request are numeric-convertible, process_request  *)
(* fails with an E002 validation error, which the handler renders as       *)
(* HTTP 400.                                                               *)
(***************************************************************************)
C4_NonNumericDropped ==
    Processed =>
        LET kept == ConvPositions(data)
            finite == {i \in kept : IsFinite(ToFloat(data[i].value).f)}
        IN  /\ (kept = finite /\ Cardinality(finite) >= 3) =>
                  (values.some /\ Len(values.val) = Cardinality(finite) /\ statistics.some)
            /\ Cardinality(kept) < 3 =>
                  /\ error.some
                  /\ error.val.type = "ValueError"
                  /\ "E002" \in error.val.codes
                  /\ response.val = [status |-> 400, error_code |-> "E002"]

\* What does hold: the same, for the requests without an integer beyond the
\* float range.
NonNumericDroppedWithoutOverflow ==
    (\A i \in DOMAIN data : data[i].value.t # "bigint") => C4_NonNumericDropped

C6_TestSamplesList500 ==
    (IsCall("detect_outliers") /\ call.data \in {FivePoint, TenPoint, ApiTenPoint}
        /\ call.engine = NewEngine) =>
        /\ call.result # <<>>
        /\ \E k \in DOMAIN call.result : call.result[k].value = FInt(500)

(***************************************************************************)
(* C7: for the 11-point sample 100,105,102,98,103,101,99,104,97,106 plus   *)
(* one injected value 500, at any position, the list detect_outliers       *)
(* returns has an entry of value 500.                                      *)
(***************************************************************************)
C7_ElevenPointsList500 ==
    (IsCall("detect_outliers") /\ call.data \in ElevenPoints /\ call.engine = NewEngine) =>
        \E k \in DOMAIN call.result :
            /\ call.result[k].value = FInt(500)
            /\ call.data[call.result[k].index + 1] = FInt(500)

C7_Witness ==
    /\ IsCall("detect_outliers")
    /\ call.data = ElevenPoint(11)
    /\ call.engine = NewEngine
    /\ Len(call.result) = 1
    /\ call.result[1].index = 10

(***************************************************************************)
(* C8: each outlier entry carries the timestamp found at its own index in  *)
(* the timestamps list when a non-empty list was supplied and the index is *)
(* in range, and a null timestamp otherwise; in a package returned by      *)
(* process_request every outlier's value and timestamp are those of the    *)
(* raw record that supplied the value, also when non-numeric records       *)
(* before it were dropped.                                                 *)
(***************************************************************************)
C8_OutlierTimestamps ==
    /\ IsCall("detect_outliers") =>
          \A k \in DOMAIN call.result :
              LET o == call.result[k]
                  ts == call.timestamps
              IN  o.timestamp =
                    (IF ts.some /\ ts.val # <<>> /\ o.index + 1 <= Len(ts.val)
                     THEN ts.val[o.index + 1]
                     ELSE TsNone)
    /\ package.some =>
          \A k \in DOMAIN package.val.outliers :
              LET o == package.val.outliers[k]
                  rec == data[NthConvertible(data, o.index + 1)]
              IN  /\ o.value = ToFloat(rec.value).f
                  /\ o.timestamp = rec.timestamp

\* A returned package with an outlier whose record came after a dropped one.
C8_Witness ==
    /\ package.some
    /\ \E k \in DOMAIN package.val.outliers :
          LET o == package.val.outliers[k]
          IN  /\ NthConvertible(data, o.index + 1) > o.index + 1
              /\ o.timestamp.t = "str"
              /\ o.timestamp = data[o.index + 2].timestamp

(***************************************************************************)
(* C9: for every sample of length >= 3 with nonzero variance,              *)
(* calculate_descriptive_statistics returns count = the sample length,     *)
(* min <= q1 <= median <= q3 <= max, where q1, median and q3 are the 25th, *)
(* 50th and 75th percentiles by linear interpolation between order         *)
(* statistics, and iqr = q3 - q1 >= 0.                                     *)
(***************************************************************************)
C9_DescriptiveOrder ==
    (IsCall("calculate_descriptive_statistics") /\ Len(call.data) >= 3
        /\ ~AllEqual(call.data)) =>
        LET s == call.data
            r == call.result
        IN  /\ r.count = Len(s)
            /\ r.min = FInt(OrderStat(s, 1))
            /\ r.max = FInt(OrderStat(s, Len(s)))
            /\ r.q1 = Fin(Interpolated(s, 25))
            /\ r.median = Fin(Interpolated(s, 50))
            /\ r.q3 = Fin(Interpolated(s, 75))
            /\ FLe(r.min, r.q1) /\ FLe(r.q1, r.median)
            /\ FLe(r.median, r.q3) /\ FLe(r.q3, r.max)
            /\ IsFinite(r.iqr)
            /\ r.iqr.r = RSub(r.q3.r, r.q1.r)
            /\ r.iqr.r.n >= 0

\* An unsorted sample of 4 points whose first quartile falls between two values.
C9_Witness ==
    /\ IsCall("calculate_descriptive_statistics")
    /\ Len(call.data) = 4
    /\ \E i \in 1..3 : IntOf(call.data, i) > IntOf(call.data, i + 1)
    /\ call.result.q1.r.d # 1
    /\ call.result.iqr.r.n > 0

(***************************************************************************)
(* C10: the variance calculate_descriptive_statistics reports is the sum   *)
(* of squared deviations from the mean divided by n - 1, std_dev is its    *)
(* square root (std_dev squared equals variance), and both are >= 0 for    *)
(* every sample of length >= 3, > 0 when the values are not all equal.     *)
(***************************************************************************)
C10_SampleVariance ==
    (IsCall("calculate_descriptive_statistics") /\ Len(call.data) >= 3) =>
        LET s == call.data
            r == call.result
            n == Len(s)
        IN  /\ r.variance = Fin(Rat(ISqDevFrom(s, 1), n * n * (n - 1)))
            /\ r.std_dev.k = "fin"
            /\ r.std_dev.sq = r.variance.r
            /\ r.std_dev.sgn >= 0
            /\ r.variance.r.n >= 0
            /\ ~AllEqual(s) => (r.variance.r.n > 0 /\ r.std_dev.sgn = 1)
            /\ AllEqual(s) => (r.variance.r.n = 0 /\ r.std_dev.sgn = 0)

\* A sample whose n - 1 variance differs from its n variance.
C10_Witness ==
    /\ IsCall("calculate_descriptive_statistics")
    /\ Len(call.data) = 3
    /\ ~AllEqual(call.data)
    /\ call.result.variance.r.n > 0
    /\ call.result.variance.r # Rat(ISqDevFrom(call.data, 1), 27)

(***************************************************************************)
(* C11: for every sample that passes validate_data (length >= 3, all       *)
(* values finite), a sample whose values are all equal included, every     *)
(* field calculate_descriptive_statistics returns is a defined, finite     *)
(* number, skewness and kurtosis in particular.                            *)
(***************************************************************************)
C11_AllFieldsFinite ==
    (IsCall("calculate_descriptive_statistics") /\ ValidateData(call.data) = Valid) =>
        LET r == call.result
        IN  /\ \A f \in {"mean", "median", "min", "max", "variance", "q1", "q3", "iqr",
                          "kurtosis"} : IsFinite(r[f])
            /\ r.std_dev.k = "fin"
            /\ r.skewness.k = "fin"

\* What does hold: every field is finite when the values are not all equal,
\* and every field but skewness and kurtosis is finite when they are.
AllFieldsFiniteUnlessConstant ==
    (IsCall("calculate_descriptive_statistics") /\ ValidateData(call.data) = Valid) =>
        LET r == call.result
        IN  /\ \A f \in {"mean", "median", "min", "max", "variance", "q1", "q3", "iqr"} :
                  IsFinite(r[f])
            /\ r.std_dev.k = "fin"
            /\ ~AllEqual(call.data) => (r.skewness.k = "fin" /\ IsFinite(r.kurtosis))
            /\ AllEqual(call.data) => (r.skewness.k = "nan" /\ IsNan(r.kurtosis))

(***************************************************************************)
(* The least squares slope of an integer sample on the indices 0..n-1, as  *)
(* a quotient of integers: slope = ISlopeNum / ISlopeDen, with             *)
(* ISlopeNum = n * sum(i * y_i) - sum(i) * sum(y_i) and                    *)
(* ISlopeDen = n * sum(i^2) - sum(i)^2 (> 0 for n >= 2).                   *)
(***************************************************************************)
\* sum of i * y_i over the 0-based indices lo .. hi - 1, by halves
RECURSIVE IIndexedSumRange(_, _, _)
IIndexedSumRange(s, lo, hi) ==
    IF lo >= hi THEN 0
    ELSE IF hi = lo + 1 THEN lo * IntOf(s, hi)
    ELSE IIndexedSumRange(s, lo, (lo + hi) \div 2)
            + IIndexedSumRange(s, (lo + hi) \div 2, hi)
IIndexedSumFrom(s, i) == IIndexedSumRange(s, i - 1, Len(s))
IIndexSum(n) == (n * (n - 1)) \div 2
IIndexSquares(n) == ((n - 1) * n * (2 * n - 1)) \div 6
ISlopeNum(s) == Len(s) * IIndexedSumFrom(s, 1) - IIndexSum(Len(s)) * ISumFrom(s, 1)
ISlopeDen(s) == Len(s) * IIndexSquares(Len(s)) - IIndexSum(Len(s)) * IIndexSum(Len(s))
\* |slope| < 0.01 * mean
ISlopeSmall(s) ==
    IF Len(s) = 1 THEN 0 < ISumFrom(s, 1)
    ELSE 100 * Len(s) * Abs(ISlopeNum(s)) < ISlopeDen(s) * ISumFrom(s, 1)

(***************************************************************************)
(* C12: analyze_trends reports trend_direction "stable" exactly when       *)
(* |slope| < 0.01 * mean(data), otherwise "upward" exactly when slope > 0, *)
(* otherwise "downward", slope being the least squares slope of the values *)
(* on the indices 0..n-1; no other label is returned.                      *)
(***************************************************************************)
C12_TrendDirection ==
    IsCall("analyze_trends") =>
        LET s == call.data
            r == call.result
        IN  /\ r.trend_direction \in {"stable", "upward", "downward"}
            /\ r.regression_slope =
                  (IF Len(s) = 1 THEN FInt(0) ELSE Fin(Rat(ISlopeNum(s), ISlopeDen(s))))
            /\ r.trend_direction = "stable" <=> ISlopeSmall(s)
            /\ r.trend_direction = "upward" <=> (~ISlopeSmall(s) /\ ISlopeNum(s) > 0)
            /\ r.trend_direction = "downward" <=> (~ISlopeSmall(s) /\ ISlopeNum(s) <= 0)

\* A flat sample of negative mean: not stable, reported downward.
C12_Witness ==
    /\ IsCall("analyze_trends")
    /\ Len(call.data) >= 3
    /\ ISumFrom(call.data, 1) < 0
    /\ ISlopeNum(call.data) = 0
    /\ call.result.trend_direction = "downward"

(***************************************************************************)
(* Arithmetic series: a constant positive step between consecutive values. *)
(***************************************************************************)
IStep(s) == IntOf(s, 2) - IntOf(s, 1)
IsIncreasingArithmetic(s) ==
    /\ Len(s) >= 3
    /\ IStep(s) > 0
    /\ \A i \in 1..(Len(s) - 1) : IntOf(s, i + 1) - IntOf(s, i) = IStep(s)

(***************************************************************************)
(* C13, as claimed: for every strictly increasing arithmetic series of     *)
(* length >= 3, analyze_trends reports regression_slope > 0 and            *)
(* trend_direction = "upward".                                             *)
(***************************************************************************)
C13_ArithmeticUpward ==
    (IsCall("analyze_trends") /\ IsIncreasingArithmetic(call.data)) =>
        /\ IsFinite(call.result.regression_slope)
        /\ call.result.regression_slope.r.n > 0
        /\ call.result.trend_direction = "upward"

(***************************************************************************)
(* C13, amended: for every strictly increasing arithmetic series of length *)
(* >= 3 with step c, analyze_trends reports regression_slope > 0, and      *)
(* trend_direction "upward" when c > 0.01 * mean(data), "stable" when      *)
(* c < 0.01 * mean(data), and never "downward".                            *)
(***************************************************************************)
C13_ArithmeticSlope ==
    (IsCall("analyze_trends") /\ IsIncreasingArithmetic(call.data)) =>
        LET s == call.data
            r == call.result
        IN  /\ IsFinite(r.regression_slope)
            /\ r.regression_slope.r.n > 0
            /\ 100 * IStep(s) * Len(s) > ISumFrom(s, 1) => r.trend_direction = "upward"
            /\ 100 * IStep(s) * Len(s) < ISumFrom(s, 1) => r.trend_direction = "stable"
            /\ r.trend_direction # "downward"

\* The series 10, 20, ..., 100 of the tests, reported upward.
C13_Witness ==
    /\ IsCall("analyze_trends")
    /\ call.data = ArithSeries(10, 10, 10)
    /\ call.result.regression_slope = FInt(10)
    /\ call.result.trend_direction = "upward"

(***************************************************************************)
(* C14: day_over_day_pct is present exactly when the sample has at least 2 *)
(* points and its second-to-last value is non-zero, and then equals        *)
(* (last - prev) / prev * 100; in every other case it is absent (null),    *)
(* never an error or a division by zero.                                   *)
(***************************************************************************)
C14_DayOverDay ==
    IsCall("analyze_trends") =>
        LET s == call.data
            n == Len(s)
            dod == call.result.day_over_day_pct
        IN  IF n >= 2 /\ IntOf(s, n - 1) # 0
            THEN dod = Some(Fin(Rat((IntOf(s, n) - IntOf(s, n - 1)) * 100, IntOf(s, n - 1))))
            ELSE dod = Nothing

\* A sample whose second-to-last value is 0 and whose last value is not.
C14_Witness ==
    /\ IsCall("analyze_trends")
    /\ Len(call.data) >= 2
    /\ IntOf(call.data, Len(call.data) - 1) = 0
    /\ IntOf(call.data, Len(call.data)) # 0
    /\ call.result.day_over_day_pct = Nothing

(***************************************************************************)
(* C15: month_over_month_pct is present exactly when the sample has at     *)
(* least 60 points and the mean of the points at indices [n-60, n-30) is   *)
(* non-zero, and then equals (mean of the last 30 points - that mean) /    *)
(* that mean * 100; it is absent for every sample shorter than 60 points,  *)
(* lengths 30 to 59 included.                                              *)
(***************************************************************************)
C15_MonthOverMonth ==
    IsCall("analyze_trends") =>
        LET s == call.data
            n == Len(s)
            mom == call.result.month_over_month_pct
        IN  IF n >= 60 /\ ISumRange(s, n - 60, n - 30) # 0
            THEN mom = Some(Fin(Rat((ISumRange(s, n - 30, n) - ISumRange(s, n - 60, n - 30)) * 100,
                                    ISumRange(s, n - 60, n - 30))))
            ELSE mom = Nothing

\* A sample of 59 points, the 29 before the last 30 of non-zero mean: absent.
C15_Witness ==
    /\ IsCall("analyze_trends")
    /\ Len(call.data) = 59
    /\ ISumRange(call.data, 0, 29) # 0
    /\ ISumRange(call.data, 29, 59) # ISumRange(call.data, 0, 29)
    /\ call.result.month_over_month_pct = Nothing

(***************************************************************************)
(* C16: test_normality never raises; for a sample of fewer than 3 points   *)
(* it returns p-value 1.0 with is_normal false, and for every sample of at *)
(* least 3 points the returned p-value lies in [0, 1] and is_normal is     *)
(* true exactly when the returned p-value is > 0.05 - also when the        *)
(* Shapiro-Wilk routine itself raised.                                     *)
(***************************************************************************)
C16_TestNormality ==
    IsCall("test_normality") =>
        LET s == call.data
            r == call.result
        IN  /\ DOMAIN r = {"p_value", "is_normal"}
            /\ Len(s) < 3 => (r.p_value = RInt(1) /\ r.is_normal = FALSE)
            /\ Len(s) >= 3 =>
                  /\ RLe(RInt(0), r.p_value) /\ RLe(r.p_value, RInt(1))
                  /\ r.is_normal <=> 20 * r.p_value.n > r.p_value.d
                  /\ call.shapiro.exc = NoExc => r.p_value = call.shapiro.p
                  /\ call.shapiro.exc # NoExc => (r.p_value = RInt(0) /\ ~r.is_normal)

\* A call whose p-value is exactly 0.05: not normal.
C16_Witness ==
    /\ IsCall("test_normality")
    /\ Len(call.data) >= 3
    /\ call.shapiro = ShapiroReturned(Rat(1, 20))
    /\ call.result = [p_value |-> Rat(1, 20), is_normal |-> FALSE]

(***************************************************************************)
(* The skewness and the excess kurtosis of an integer sample from its      *)
(* central sums: with D_i = n * (x_i - mean) and S_k = sum D_i^k, the k-th *)
(* central moment is S_k / n^(k+1).                                        *)
(***************************************************************************)
IPow(a, k) == CASE k = 2 -> a * a [] k = 3 -> a * a * a [] k = 4 -> a * a * a * a
RECURSIVE ICentralSumFrom(_, _, _)
ICentralSumFrom(s, k, i) ==
    IF i > Len(s) THEN 0 ELSE IPow(IDev(s, i), k) + ICentralSumFrom(s, k, i + 1)
ICentral(s, k) ==
    Rat(ICentralSumFrom(s, k, 1),
        CASE k = 2 -> IPow(Len(s), 3) [] k = 3 -> IPow(Len(s), 4)
          [] k = 4 -> Len(s) * IPow(Len(s), 4))
\* skewness^2 = m3^2 / m2^3 and kurtosis = m4 / m2^2 - 3, when m2 > 0
ISkewSquared(s) ==
    RDiv(RMul(ICentral(s, 3), ICentral(s, 3)),
         RMul(ICentral(s, 2), RMul(ICentral(s, 2), ICentral(s, 2))))
IKurtosis(s) ==
    RSub(RDiv(ICentral(s, 4), RMul(ICentral(s, 2), ICentral(s, 2))), RInt(3))
IDefined(s) == ICentral(s, 2).n # 0
\* skew > t and skew < -t for t >= 0, |skew| < t, |kurtosis| < t
ISkewAbove(s, t) ==
    IDefined(s) /\ ICentral(s, 3).n > 0 /\ RLt(RMul(t, t), ISkewSquared(s))
ISkewBelowMinus(s, t) ==
    IDefined(s) /\ ICentral(s, 3).n < 0 /\ RLt(RMul(t, t), ISkewSquared(s))
ISkewWithin(s, t) == IDefined(s) /\ RLt(ISkewSquared(s), RMul(t, t))
IKurtosisWithin(s, t) ==
    IDefined(s) /\ RLt(RNeg(t), IKurtosis(s)) /\ RLt(IKurtosis(s), t)

(***************************************************************************)
(* C17: classify_distribution returns "normal" whenever p_value > 0.05,    *)
(* whatever the skewness and kurtosis; otherwise the label of the first    *)
(* matching rule in the order |skew| < 0.5 and |kurtosis| < 0.5 ->         *)
(* approximately_normal; skew > 1 -> right_skewed; skew < -1 ->            *)
(* left_skewed; kurtosis > 3 -> heavy_tailed; kurtosis < -1 ->             *)
(* light_tailed; else non_normal - so a sample with skew > 1 and           *)
(* kurtosis > 3 is right_skewed, never heavy_tailed.                       *)
(***************************************************************************)
C17_ClassifyOrder ==
    (IsCall("classify_distribution") /\ call.library = Returned) =>
        LET s == call.data
            p == call.p_value
        IN  call.result =
              (IF 20 * p.n > p.d THEN "normal"
               ELSE IF ISkewWithin(s, Rat(1, 2)) /\ IKurtosisWithin(s, Rat(1, 2))
                    THEN "approximately_normal"
               ELSE IF ISkewAbove(s, RInt(1)) THEN "right_skewed"
               ELSE IF ISkewBelowMinus(s, RInt(1)) THEN "left_skewed"
               ELSE IF IDefined(s) /\ RLt(RInt(3), IKurtosis(s)) THEN "heavy_tailed"
               ELSE IF IDefined(s) /\ RLt(IKurtosis(s), RInt(-1)) THEN "light_tailed"
               ELSE "non_normal")

\* A sample with skew > 1 and kurtosis > 3, classified right_skewed.
C17_Witness ==
    /\ IsCall("classify_distribution")
    /\ call.library = Returned
    /\ ~RLt(Alpha, call.p_value)
    /\ ISkewAbove(call.data, RInt(1))
    /\ RLt(RInt(3), IKurtosis(call.data))
    /\ call.result = "right_skewed"

(***************************************************************************)
(* C18: distribution classification is the one and only analysis step that *)
(* absorbs an internal failure: a failure inside classify_distribution     *)
(* yields the label "unknown" and the call still succeeds, whereas a       *)
(* failure inside any other step (descriptive statistics, trend analysis,  *)
(* outlier detection, the normality test) makes process_request fail       *)
(* instead of being replaced by a default value.                           *)
(***************************************************************************)
C18_OnlyClassificationAbsorbs ==
    (pc = "done" /\ fault.hit) =>
        IF fault.step = "classify"
        THEN /\ package.some
             /\ package.val.distribution_type = "unknown"
             /\ error = Nothing
             /\ response.val.status = 200
        ELSE /\ package = Nothing
             /\ error.some
             /\ response.val.status # 200

\* What does hold: the normality test absorbs its failure too, with the
\* defaults p-value 0.0 and is_normal false; the other three steps fail.
ClassificationAndNormalityAbsorb ==
    (pc = "done" /\ fault.hit) =>
        CASE fault.step = "classify" ->
                /\ package.some /\ error = Nothing /\ response.val.status = 200
                /\ package.val.distribution_type = "unknown"
          [] fault.step = "normality" ->
                /\ package.some /\ error = Nothing /\ response.val.status = 200
                /\ package.val.normality_test_p_value = RInt(0)
                /\ package.val.is_normal_distribution = FALSE
          [] OTHER ->
                /\ package = Nothing /\ error.some /\ response.val.status # 200

(***************************************************************************)
(* Vocabulary for calculate_correlations: the names of a mapping, the keys *)
(* of a result.                                                            *)
(***************************************************************************)
NameAt(ds, i) == ds[i].name
KeysOf(dict) == {dict[k].key : k \in DOMAIN dict}
PlainNames(ds) == \A i \in DOMAIN ds : NameAt(ds, i) \in {"a", "b", "c"}

(***************************************************************************)
(* C19: for a mapping of k distinctly named datasets, calculate_correlations *)
(* returns a map with exactly k*(k-1)/2 entries, one per unordered pair of *)
(* datasets, none computed twice or lost - the empty map, without error,   *)
(* when k < 2; for any dataset names, names that contain the text "_vs_"   *)
(* included.                                                               *)
(***************************************************************************)
C19_OneEntryPerPair ==
    IsCall("calculate_correlations") =>
        LET ds == call.datasets
            r == call.result
            k == Len(ds)
        IN  /\ r.exc = NoExc
            /\ Len(r.result) = (k * (k - 1)) \div 2
            /\ \A i, j \in 1..k : i < j =>
                  \E e \in DOMAIN r.result :
                      /\ r.result[e].key = NameAt(ds, i) \o "_vs_" \o NameAt(ds, j)
                      /\ r.result[e].val = CorrelationEntry(ds, i, j)

\* What does hold: the same, for mappings none of whose names contains "_vs_".
OneEntryPerPairOfPlainNames ==
    (IsCall("calculate_correlations") /\ PlainNames(call.datasets)) => C19_OneEntryPerPair

(***************************************************************************)
(* C20: the key of each correlation entry is "<nameA>_vs_<nameB>" where    *)
(* nameA comes earlier and nameB later in the insertion order of the input *)
(* mapping; the key with the two names in the opposite order never         *)
(* appears.                                                                *)
(***************************************************************************)
C20_KeyOrder ==
    IsCall("calculate_correlations") =>
        LET ds == call.datasets
            r == call.result
            k == Len(ds)
        IN  /\ \A e \in DOMAIN r.result :
                  \E i, j \in 1..k :
                      i < j /\ r.result[e].key = NameAt(ds, i) \o "_vs_" \o NameAt(ds, j)
            /\ \A i, j \in 1..k : i < j =>
                  /\ NameAt(ds, i) \o "_vs_" \o NameAt(ds, j) \in KeysOf(r.result)
                  /\ NameAt(ds, j) \o "_vs_" \o NameAt(ds, i) \notin KeysOf(r.result)

\* What does hold: the same, for mappings none of whose names contains "_vs_".
KeyOrderOfPlainNames ==
    (IsCall("calculate_correlations") /\ PlainNames(call.datasets)) => C20_KeyOrder

(***************************************************************************)
(* C21: process_multi_dataset has no partial-success mode: it either       *)
(* returns a result whose packages have exactly the input dataset names as *)
(* keys, together with the cross-correlations over all of their validated  *)
(* arrays, or it raises; if any one dataset fails validation the whole     *)
(* call raises and no package is returned, not even for the datasets       *)
(* processed earlier in iteration order.                                   *)
(***************************************************************************)
C21_NoPartialSuccess ==
    IsCall("process_multi_dataset") =>
        LET ds == call.datasets
            res == call.result
            sample(i) == ExtractValues(ds[i].data)
            FailsValidation(i) ==
                sample(i).exc # NoExc \/ ValidateData(sample(i).values) # Valid
        IN  /\ res.exc.some <=> ~res.result.some
            /\ res.result.some =>
                  /\ [i \in DOMAIN res.result.val.packages |-> res.result.val.packages[i].key]
                        = [i \in DOMAIN ds |-> ds[i].name]
                  /\ \A i \in DOMAIN ds :
                        res.result.val.packages[i].val.statistics.count = Len(sample(i).values)
                  /\ \A arrays \in {[i \in DOMAIN ds |->
                                         [name |-> ds[i].name, data |-> sample(i).values]]} :
                        res.result.val.cross_correlations = CalculateCorrelations(arrays).result
            /\ (\E i \in DOMAIN ds : FailsValidation(i)) =>
                  (res.exc.some /\ res.result = Nothing)

\* The first dataset was processed, the second fails validation: the call raised.
C21_Witness ==
    /\ IsCall("process_multi_dataset")
    /\ Len(call.datasets) = 2
    /\ ValidateData(ExtractValues(call.datasets[1].data).values) = Valid
    /\ "classify_distribution" \in {call.result.steps[1][k] : k \in DOMAIN call.result.steps[1]}
    /\ ValidateData(ExtractValues(call.datasets[2].data).values) # Valid
    /\ call.result.exc.some /\ call.result.result = Nothing

(***************************************************************************)
(* C22: an unexpected error raised inside a statistical step of            *)
(* process_request after validation has passed, whatever its exception     *)
(* type (a ValueError of a numerical routine or of building a result model *)
(* included), reaches the caller of POST /v1/generate as E003 (HTTP 500)   *)
(* and never as E002 (HTTP 400); E002 is produced only for EmptyData,      *)
(* InsufficientData and NonFiniteData.                                     *)
(***************************************************************************)
C22_UnexpectedErrorsAreE003 ==
    (pc = "done" /\ error.some /\ values.some) =>
        /\ ValidateData(values.val) = Valid =>
              response.val = [status |-> 500, error_code |-> "E003"]
        /\ response.val.status = 400 =>
              ValidateData(values.val) \in {EmptyData, InsufficientData, NanData, InfData}

\* What the code does: after validation an error that is not a ValueError
\* is answered 500/E003, a ValueError is answered 400/E002.
UnexpectedErrorsByType ==
    (pc = "done" /\ error.some /\ values.some /\ ValidateData(values.val) = Valid) =>
        IF error.val.type = "ValueError"
        THEN response.val = [status |-> 400, error_code |-> "E002"]
        ELSE response.val = [status |-> 500, error_code |-> "E003"]

(***************************************************************************)
(* C23: when rate limiting is enabled and the client already has           *)
(* requests_per_minute accepted requests within the last minute, its next  *)
(* POST /v1/generate is answered with HTTP 429 and error code E006 (with a *)
(* Retry-After header; the model keeps the status and the code), not with  *)
(* any other status or code, and no statistical processing is performed    *)
(* for it.                                                                 *)
(***************************************************************************)
C23_RateLimitIs429 ==
    (pc = "done" /\ error.some /\ "E006" \in error.val.codes) =>
        /\ response.val = [status |-> 429, error_code |-> "E006"]
        /\ rl_count = RequestsPerMinute
        /\ values = Nothing /\ statistics = Nothing /\ package = Nothing

\* What the code does: the HTTPException of the rate limiter is caught by
\* the handler's last except clause and answered 500/E003; nothing is
\* processed.
RateLimitIs500 ==
    /\ (pc = "done" /\ error.some /\ "E006" \in error.val.codes) =>
          /\ response.val = [status |-> 500, error_code |-> "E003"]
          /\ rl_count = RequestsPerMinute
          /\ values = Nothing /\ statistics = Nothing /\ package = Nothing
    /\ response.some => response.val.status # 429

(***************************************************************************)
(* C24: when process_request is called with a non-empty masking_fields     *)
(* list, every field named in it has been replaced by the marker           *)
(* "***MASKED***" in every record that contains it before the Extractor    *)
(* reads the records; the caller's records are not modified.               *)
(***************************************************************************)
C24_MaskedBeforeExtraction ==
    IsCall("process_request") =>
        \A k \in DOMAIN call.calls :
            Len(call.masking_fields) > 0 =>
                call.calls[k].result.extracted =
                    MaskSensitiveFields(call.calls[k].request, call.masking_fields)

\* What the code does: the Extractor reads the caller's records as they are.
ExtractorReadsRawRecords ==
    IsCall("process_request") =>
        \A k \in DOMAIN call.calls : call.calls[k].result.extracted = call.calls[k].request

AnalysisMethods ==
    {"calculate_descriptive_statistics", "analyze_trends", "detect_outliers",
     "test_normality", "classify_distribution"}

\* steps are the methods called for the records, in order; exc is how the call ended.
ValidatedBeforeAnalysis(records, steps, exc) ==
    LET sample == ExtractValues(records)
        verdict == ValidateData(sample.values)
    IN  /\ \A k \in DOMAIN steps :
              steps[k] \in AnalysisMethods =>
                  /\ sample.exc = NoExc /\ verdict = Valid
                  /\ \E j \in 1..(k - 1) : steps[j] = "validate_data"
        /\ (sample.exc = NoExc /\ verdict # Valid) =>
              /\ exc = Some(Exc("ValueError", verdict, {"E002"}))
              /\ \A k \in DOMAIN steps : steps[k] \notin AnalysisMethods

WithinMinuteBefore(ts, t) == ts > t - Minute

C27_RateLimitHolds ==
    \A key \in ClientKeys :
        LET accepted == limiter.accepted[key]
            recorded == limiter.requests[key]
            StillCounted(ts) == WithinMinuteBefore(ts, limiter.now)
        IN  \* accepted only below the limit
            /\ \A i \in DOMAIN accepted :
                  Cardinality({j \in 1..(i - 1) : WithinMinuteBefore(accepted[j], accepted[i])})
                      < RequestsPerMinute
            \* only accepted requests are recorded
            /\ Len(recorded) <= Len(accepted)
            /\ recorded = SubSeq(accepted, Len(accepted) - Len(recorded) + 1, Len(accepted))
            \* no entry of the last minute has been removed
            /\ SelectSeq(recorded, StillCounted) = SelectSeq(accepted, StillCounted)

\* A client was refused, the cleanup removed its old entry, and it was
\* accepted again later.
C27_Witness ==
    \E key \in ClientKeys :
        /\ Len(limiter.accepted[key]) >= 2
        /\ limiter.refused[key]
        /\ Len(limiter.requests[key]) < Len(limiter.accepted[key])
        /\ limiter.wake > Minute

C29_NonPositiveMeanNeverStable ==
    (IsCall("analyze_trends") /\ ISumFrom(call.data, 1) <= 0) =>
        LET s == call.data
            r == call.result
        IN  /\ r.trend_direction # "stable"
            /\ r.trend_direction = "upward" <=> ISlopeNum(s) > 0
            /\ r.trend_direction = "downward" <=> ISlopeNum(s) <= 0
            /\ (\A i \in 1..Len(s) : IntOf(s, i) = IntOf(s, 1)) =>
                  /\ r.regression_slope = FInt(0)
                  /\ r.trend_direction = "downward"

\* An all-zero sample: mean 0, slope 0, reported downward.
C29_Witness ==
    /\ IsCall("analyze_trends")
    /\ Len(call.data) >= 2
    /\ \A i \in 1..Len(call.data) : IntOf(call.data, i) = 0
    /\ call.result.regression_slope = FInt(0)
    /\ call.result.trend_direction = "downward"

(***************************************************************************)
(* C30: in every StatisticalPackage returned by process_request,           *)
(* is_normal_distribution is true if and only if distribution_type is      *)
(* "normal", both following from the same p-value against 0.05, also when  *)
(* the normality test failed internally; the combination p-value 1.0,      *)
(* is_normal false, "normal" of the fewer-than-3-points default is never   *)
(* returned, validation having rejected such samples.                      *)
(***************************************************************************)
C30_NormalIffLabelNormal ==
    package.some =>
        LET p == package.val
        IN  /\ Len(values.val) >= MinPoints
            /\ p.is_normal_distribution <=> p.distribution_type = "normal"
            /\ p.is_normal_distribution <=> RLt(Alpha, p.normality_test_p_value)
            /\ ~(/\ p.normality_test_p_value = RInt(1)
                  /\ ~p.is_normal_distribution
                  /\ p.distribution_type = "normal")
            /\ (fault.step = "normality" /\ fault.hit) =>
                  /\ p.normality_test_p_value = RInt(0)
                  /\ ~p.is_normal_distribution
                  /\ p.distribution_type # "normal"

\* A package returned after stats.shapiro raised: p-value 0, not normal, and
\* a label other than "normal".
C30_Witness ==
    /\ package.some
    /\ fault.step = "normality" /\ fault.hit
    /\ package.val.normality_test_p_value = RInt(0)
    /\ ~package.val.is_normal_distribution
    /\ package.val.distribution_type \notin {"normal", "unknown"}

\* A package with p-value 1.0 that is normal and labelled "normal".
C30_NormalReturned ==
    /\ package.some
    /\ package.val.normality_test_p_value = RInt(1)
    /\ package.val.is_normal_distribution
    /\ package.val.distribution_type = "normal"

====
